---- MODULE Spec2Model ----
(***************************************************************************)
(* Adaptive learning core of the insight platform:                         *)
(*   backend/ai_engine/knowledge_tracing.py  (BKT + DKT + DKVMN + hybrid)  *)
(*   backend/ai_engine/adaptive_practice.py  (cognitive load, selector)    *)
(*   backend/api/mastery_routes.py           (the shared kt_engine)        *)
(*                                                                         *)
(* Numbers.  Python floats are modelled in fixed point.  A mastery score   *)
(* (0-100 scale) is an integer number of 1/Unit points; a probability, a   *)
(* rate, a weight, a difficulty and a confidence is an integer number of   *)
(* 1/Unit; a division truncates toward minus infinity at that resolution.  *)
(***************************************************************************)
EXTENDS Integers, Sequences, FiniteSets, TLC

\* Fixed-point resolution standing for the float type of every score.
Unit == 1000

\* 100.0 on the mastery scale, and 1.0 as a probability in 1/(100*Unit).
M100 == 100 * Unit

Min(a, b) == IF a <= b THEN a ELSE b

Max(a, b) == IF a >= b THEN a ELSE b

(***************************************************************************)
(* LAYER 1: BKTEngine                                                      *)
(***************************************************************************)

\* BKTParameters defaults, in 1/Unit.
p_t == 200

p_g == 250

p_s == 100

\* floor(r * 10^k / den) + q * 10^k for 0 <= r < den: k digits of long division.
RECURSIVE LongDiv(_, _, _, _)
LongDiv(q, r, den, k) ==
    IF k = 0 THEN q
    ELSE LongDiv(q * 10 + ((r * 10) \div den), (r * 10) % den, den, k - 1)

\* numerator / denominator as a probability in 1/(100*Unit)  (five digits).
Ratio(numerator, denominator) ==
    LongDiv(numerator \div denominator, numerator % denominator, denominator, 5)

\* A plausible slip: the learning transition left out.
Transition_omitted(p) == p

\* The learning transition p + (1 - p) * P(T).
Transition(p) == p + (((M100 - p) * p_t) \div Unit)

\* A plausible slip: the two Bayes branches exchanged.
p_l_given_swapped(p_l, is_correct) ==
    LET numerator == IF is_correct THEN p_l * p_s ELSE p_l * (Unit - p_s)
        denominator == IF is_correct
                       THEN p_l * p_s + (M100 - p_l) * (Unit - p_g)
                       ELSE p_l * (Unit - p_s) + (M100 - p_l) * p_g
    IN  IF denominator > 0 THEN Ratio(numerator, denominator) ELSE p_l

\* P(L | correct) and P(L | incorrect) by Bayes' theorem, before the learning
\* transition; the prior when the denominator is 0.
p_l_given(p_l, is_correct) ==
    LET numerator == IF is_correct THEN p_l * (Unit - p_s) ELSE p_l * p_s
        denominator == IF is_correct
                       THEN p_l * (Unit - p_s) + (M100 - p_l) * p_g
                       ELSE p_l * p_s + (M100 - p_l) * (Unit - p_g)
    IN  IF denominator > 0 THEN Ratio(numerator, denominator) ELSE p_l

\* A plausible slip: the transition added without the (1 - p) factor and the
\* result returned without the final clamp.
update_mastery_unclamped(current_mastery, is_correct) ==
    LET p_l == current_mastery
        numerator == IF is_correct THEN p_l * (Unit - p_s) ELSE p_l * p_s
        denominator == IF is_correct
                       THEN p_l * (Unit - p_s) + (M100 - p_l) * p_g
                       ELSE p_l * p_s + (M100 - p_l) * (Unit - p_g)
        p_given == IF denominator > 0 THEN Ratio(numerator, denominator) ELSE p_l
    IN  p_given + ((M100 * p_t) \div Unit)

\* BKTEngine.update_mastery: prior (0-100 scale) and correctness -> posterior.
update_mastery(current_mastery, is_correct) ==
    LET p_l == current_mastery
        p_l_new == Transition(p_l_given(p_l, is_correct))
    IN  Min(M100, Max(0, p_l_new))

(***************************************************************************)
(* LAYER 2: DKTEngine                                                      *)
(***************************************************************************)

\* DKTEngine.__init__: the window length.
sequence_length == 10

\* A response without a 'response_time' key.
NoTime == -1

RECURSIVE SumSeq(_)
SumSeq(s) == IF s = <<>> THEN 0 ELSE Head(s) + SumSeq(Tail(s))

\* response_history[-sequence_length:]
Recent(response_history) ==
    LET n == Len(response_history)
    IN  IF n <= sequence_length THEN response_history
        ELSE SubSeq(response_history, n - sequence_length + 1, n)

\* np.mean(accuracies) * 100 of a list of booleans, on the mastery scale.
MeanPct(accuracies) ==
    (SumSeq([i \in 1..Len(accuracies) |-> IF accuracies[i] THEN M100 ELSE 0]))
        \div Len(accuracies)

\* DKTEngine.analyze_pattern
analyze_pattern(response_history) ==
    IF response_history = <<>>
    THEN [predicted_mastery |-> 30 * Unit, confidence |-> 300, learning_velocity |-> 0]
    ELSE
    LET recent == Recent(response_history)
        n == Len(recent)
        accuracies == [i \in 1..n |-> recent[i].is_correct]
        overall_accuracy == MeanPct(accuracies)
        half == n \div 2
        velocity == IF n >= 3
                    THEN MeanPct(SubSeq(accuracies, half + 1, n))
                         - MeanPct(SubSeq(accuracies, 1, half))
                    ELSE 0
        timed == \A i \in 1..n : recent[i].response_time # NoTime
        avg_time == SumSeq([i \in 1..n |-> recent[i].response_time]) \div n
        time_factor == IF timed
                       THEN Max(0, Min(20 * Unit, 20 * Unit - (avg_time \div 2)))
                       ELSE 0
        predicted == Min(M100,
                         ((overall_accuracy * 7) \div 10)
                         + (((50 * Unit + velocity * 2) * 3) \div 10)
                         + time_factor)
    IN  [predicted_mastery |-> predicted,
         confidence |-> Min(Unit, (n * Unit) \div sequence_length),
         learning_velocity |-> velocity]

(***************************************************************************)
(* LAYER 3: DKVMNEngine.  value_memory is a dict concept -> mastery and    *)
(* key_memory a dict "<a>_<b>" -> correlation; both are functions whose    *)
(* DOMAIN is the set of keys present.                                      *)
(***************************************************************************)

\* The correlation a write registers, and the default of an absent key (1/Unit).
default_correlation == 500

unobserved_correlation == 300

\* The value read_mastery returns for a concept not in value_memory.
default_mastery == 30 * Unit

\* f"{concept_a}_{concept_b}"
CorrelationKey(concept_a, concept_b) == concept_a \o "_" \o concept_b

\* DKVMNEngine._calculate_correlation
calculate_correlation(km, concept_a, concept_b) ==
    LET key == CorrelationKey(concept_a, concept_b)
    IN  IF key \in DOMAIN km THEN km[key] ELSE unobserved_correlation

\* DKVMNEngine.read_mastery
read_mastery(vm, km, concept_id, related_concepts) ==
    IF concept_id \notin DOMAIN vm THEN default_mastery
    ELSE
    LET direct_mastery == vm[concept_id]
        stored == SelectSeq(related_concepts, LAMBDA r : r \in DOMAIN vm)
        related_mastery ==
            [i \in 1..Len(stored) |->
                (vm[stored[i]] * calculate_correlation(km, concept_id, stored[i]))
                    \div Unit]
    IN  IF related_mastery # <<>>
        THEN ((7 * direct_mastery) \div 10)
             + ((3 * (SumSeq(related_mastery) \div Len(related_mastery))) \div 10)
        ELSE direct_mastery

\* The set of the elements of a list.
Range(s) == {s[i] : i \in 1..Len(s)}

\* A plausible slip: the update is also propagated into the related concepts.
write_value_propagating(vm, concept_id, mastery_update, related_concepts) ==
    [d \in DOMAIN vm \cup {concept_id} \cup Range(related_concepts) |->
        IF d = concept_id \/ d \in Range(related_concepts) THEN mastery_update
        ELSE vm[d]]

\* DKVMNEngine.write_mastery, the value memory after the call.
write_value(vm, concept_id, mastery_update, related_concepts) ==
    [d \in DOMAIN vm \cup {concept_id} |->
        IF d = concept_id THEN mastery_update ELSE vm[d]]

\* A plausible slip: the key memory rebuilt from the keys of this write.
write_keys_rebuilt(km, concept_id, related_concepts) ==
    [k \in {CorrelationKey(concept_id, r) : r \in Range(related_concepts)} |->
        default_correlation]

\* DKVMNEngine.write_mastery, the key memory after the call.
write_keys(km, concept_id, related_concepts) ==
    LET new == {CorrelationKey(concept_id, r) : r \in Range(related_concepts)}
    IN  [k \in DOMAIN km \cup new |->
            IF k \in DOMAIN km THEN km[k] ELSE default_correlation]

\* DKVMNEngine.get_mastered_concepts (threshold 85.0)
get_mastered_concepts(vm) == {c \in DOMAIN vm : vm[c] >= 85 * Unit}

\* DKVMNEngine.get_weak_concepts (threshold 60.0)
get_weak_concepts(vm) == {c \in DOMAIN vm : vm[c] < 60 * Unit}

(***************************************************************************)
(* HybridKnowledgeTracing                                                  *)
(***************************************************************************)

\* A plausible slip: the memory weight written 0.2 + 0.2 * confidence.
fuse_sign_slip(bkt_mastery, dkt_analysis, dkvmn_mastery) ==
    LET confidence == dkt_analysis.confidence
    IN  ((bkt_mastery * 4) \div 10)
        + ((dkt_analysis.predicted_mastery * ((4 * confidence) \div 10)) \div Unit)
        + ((dkvmn_mastery * (200 + ((2 * confidence) \div 10))) \div Unit)

\* The weighted combination of calculate_mastery (final_mastery).
fuse(bkt_mastery, dkt_analysis, dkvmn_mastery) ==
    LET confidence == dkt_analysis.confidence
    IN  ((bkt_mastery * 4) \div 10)
        + ((dkt_analysis.predicted_mastery * ((4 * confidence) \div 10)) \div Unit)
        + ((dkvmn_mastery * (200 + ((2 * (Unit - confidence)) \div 10))) \div Unit)

\* A plausible slip: the mastered threshold made strict.
get_recommendation_strict(mastery) ==
    IF mastery > 85 * Unit THEN "SKIP"
    ELSE IF mastery >= 60 * Unit THEN "LIGHT_REVIEW"
    ELSE "FOCUSED_PRACTICE"

\* HybridKnowledgeTracing._get_recommendation
get_recommendation(mastery) ==
    IF mastery >= 85 * Unit THEN "SKIP"
    ELSE IF mastery >= 60 * Unit THEN "LIGHT_REVIEW"
    ELSE "FOCUSED_PRACTICE"

\* round(x, 2) of a score in 1/Unit points, half to even, kept in 1/Unit.
Round2(x) ==
    LET step == Unit \div 100
        q == x \div step
        r == x % step
    IN  IF 2 * r > step \/ (2 * r = step /\ q % 2 = 1) THEN (q + 1) * step
        ELSE q * step

\* The dict calculate_mastery returns, from the three components and the fusion.
MasteryResult(bkt_mastery, dkt_analysis, dkvmn_mastery, final_mastery) ==
    [mastery_score |-> Round2(final_mastery),
     bkt_component |-> Round2(bkt_mastery),
     dkt_component |-> Round2(dkt_analysis.predicted_mastery),
     dkvmn_component |-> Round2(dkvmn_mastery),
     confidence |-> dkt_analysis.confidence,
     learning_velocity |-> Round2(dkt_analysis.learning_velocity),
     needs_practice |-> final_mastery < 85 * Unit,
     recommendation |-> get_recommendation(final_mastery)]

(***************************************************************************)
(* State.  kt_engine is the one HybridKnowledgeTracing instance of the     *)
(* process (mastery_routes.py), shared by every request and every student. *)
(***************************************************************************)
VARIABLES
    value_memory,   \* kt_engine.dkvmn.value_memory
    key_memory,     \* kt_engine.dkvmn.key_memory
    ret,            \* what the last completed call returned
    op,             \* the last completed call: its name, student and concept
    ncalls,         \* calls made so far
    call_limit,     \* the number of calls a run is cut off at
    observed,       \* history variable: the ordered pairs <<c, r>> such that a
                    \* write for concept c listed r as related
    threads,        \* per request thread: position in calculate_mastery and locals
    solo,           \* history variable: per student, the memory as it would be
                    \* had no other student's calculate_mastery call run
    solo_ret        \* history variable: what the last calculate_mastery call
                    \* returns in that run without the other students' calls

kt_vars == <<value_memory, key_memory, ret, op, ncalls, call_limit, observed,
             solo, solo_ret>>

\* A call of one of the stateless functions: its name, arguments and value.
VARIABLES pure

\* AdaptivePracticeEngine.select_next_content: its arguments, and its locals
\* as the packing loop runs.
VARIABLES
    available_content,
    student_mastery,
    learning_velocity,
    session_time_remaining,
    prioritized,        \* the ranked list the loop iterates
    next_item,          \* position of the loop in prioritized
    selected_items,
    current_time,
    sel_pc              \* "start", "packing" or "done" (returned)

sel_args == <<available_content, student_mastery, learning_velocity,
              session_time_remaining>>

sel_vars == <<sel_args, prioritized, next_item, selected_items, current_time, sel_pc>>

vars == <<kt_vars, threads, pure, sel_vars>>

(***************************************************************************)
(* Inputs                                                                  *)
(***************************************************************************)

\* Calls in one run.
MaxCalls == 2

Students == {"student_001", "student_002"}

\* Concept identifiers; an identifier may itself contain '_'.
Concepts == {"a", "a_a", "b"}

\* related_concepts lists.
RelatedLists == { <<>>, <<"a_a">>, <<"a", "b">> }

\* Caller-supplied prior mastery, within [0,100].
Priors == {0, M100}

Response(is_correct, response_time) ==
    [is_correct |-> is_correct, response_time |-> response_time]

Repeat(r, n) == [i \in 1..n |-> r]

\* Response histories: none, the decline without response times for which
\* confidence * predicted_mastery is lowest (four correct answers, then five
\* wrong ones: -13.89 at confidence 0.9), and a full window of fast correct
\* answers (100 at confidence 1).
Histories ==
    { <<>>,
      Repeat(Response(TRUE, NoTime), 4) \o Repeat(Response(FALSE, NoTime), 5),
      Repeat(Response(TRUE, 2 * Unit), sequence_length) }

\* Values a direct write_mastery call stores.
WriteValues == {0, M100}

\* Two request threads of the threaded server.
Threads == {1, 2}

Idle == [pc |-> "idle"]

NoCall == [name |-> "none"]

NoReturn == [kind |-> "none"]

EmptyMemory == [value_memory |-> <<>>, key_memory |-> <<>>]

KTInit ==
    /\ value_memory = <<>>
    /\ key_memory = <<>>
    /\ ret = NoReturn
    /\ op = NoCall
    /\ ncalls = 0
    /\ call_limit = MaxCalls
    /\ observed = {}
    /\ threads = [t \in Threads |-> Idle]
    /\ solo = [s \in Students |-> EmptyMemory]
    /\ solo_ret = NoReturn

(***************************************************************************)
(* The engine's operations, each a whole call on the shared engine.        *)
(***************************************************************************)

\* HybridKnowledgeTracing.calculate_mastery on a memory <<vm, km>>: the dict it
\* returns and the memory it leaves.  student_id and response_time are
\* accepted and never read.
calculate_mastery(vm, km, concept_id, is_correct, current_mastery, response_history, related_concepts) ==
    LET bkt_mastery == update_mastery(current_mastery, is_correct)
        dkt_analysis == analyze_pattern(response_history)
        dkvmn_mastery == read_mastery(vm, km, concept_id, related_concepts)
        final_mastery == fuse(bkt_mastery, dkt_analysis, dkvmn_mastery)
    IN  [result |-> MasteryResult(bkt_mastery, dkt_analysis, dkvmn_mastery,
                                  final_mastery),
         value_memory |-> write_value(vm, concept_id, final_mastery,
                                      related_concepts),
         key_memory |-> write_keys(km, concept_id, related_concepts)]

\* The /calculate route: one whole calculate_mastery call on kt_engine.
CalculateMastery(student_id, concept_id, is_correct, current_mastery, response_history, related_concepts) ==
    LET call == calculate_mastery(value_memory, key_memory, concept_id,
                                  is_correct, current_mastery, response_history,
                                  related_concepts)
        alone == calculate_mastery(solo[student_id].value_memory,
                                   solo[student_id].key_memory, concept_id,
                                   is_correct, current_mastery, response_history,
                                   related_concepts)
    IN  /\ ncalls < call_limit
        /\ value_memory' = call.value_memory
        /\ key_memory' = call.key_memory
        /\ ret' = [kind |-> "mastery", value |-> call.result]
        /\ op' = [name |-> "calculate_mastery", student_id |-> student_id,
                  concept_id |-> concept_id, current_mastery |-> current_mastery]
        /\ ncalls' = ncalls + 1
        /\ observed' = observed \cup {<<concept_id, r>> : r \in Range(related_concepts)}
        /\ UNCHANGED call_limit
        /\ solo' = [solo EXCEPT ![student_id] =
                        [value_memory |-> alone.value_memory,
                         key_memory |-> alone.key_memory]]
        /\ solo_ret' = [kind |-> "mastery", value |-> alone.result]
        /\ UNCHANGED <<threads, pure, sel_vars>>

\* DKVMNEngine.read_mastery
ReadMastery(concept_id, related_concepts) ==
    /\ ncalls < call_limit
    /\ ret' = [kind |-> "read",
               value |-> read_mastery(value_memory, key_memory, concept_id,
                                      related_concepts)]
    /\ op' = [name |-> "read_mastery", concept_id |-> concept_id,
              related_concepts |-> related_concepts]
    /\ ncalls' = ncalls + 1
    /\ solo_ret' = NoReturn
    /\ UNCHANGED <<value_memory, key_memory, call_limit, observed, solo>>
    /\ UNCHANGED <<threads, pure, sel_vars>>

\* DKVMNEngine.write_mastery, called directly (on behalf of no one student).
WriteMastery(concept_id, mastery_update, related_concepts) ==
    /\ ncalls < call_limit
    /\ value_memory' = write_value(value_memory, concept_id, mastery_update,
                                   related_concepts)
    /\ key_memory' = write_keys(key_memory, concept_id, related_concepts)
    /\ ret' = NoReturn
    /\ op' = [name |-> "write_mastery", concept_id |-> concept_id]
    /\ ncalls' = ncalls + 1
    /\ observed' = observed \cup {<<concept_id, r>> : r \in Range(related_concepts)}
    /\ UNCHANGED call_limit
    /\ solo' = [s \in Students |->
                    [value_memory |-> write_value(solo[s].value_memory, concept_id,
                                                  mastery_update, related_concepts),
                     key_memory |-> write_keys(solo[s].key_memory, concept_id,
                                               related_concepts)]]
    /\ solo_ret' = NoReturn
    /\ UNCHANGED <<threads, pure, sel_vars>>

\* Calls in one run of the associative memory used on its own.
MaxMemoryCalls == 3

\* DKVMNEngine.__init__, for a run of read_mastery and write_mastery calls.
DKVMNInit ==
    /\ value_memory = <<>>
    /\ key_memory = <<>>
    /\ ret = NoReturn
    /\ op = NoCall
    /\ ncalls = 0
    /\ call_limit = MaxMemoryCalls
    /\ observed = {}
    /\ threads = [t \in Threads |-> Idle]
    /\ solo = [s \in Students |-> EmptyMemory]
    /\ solo_ret = NoReturn

\* DKVMNEngine.get_mastered_concepts
GetMasteredConcepts ==
    /\ ncalls < call_limit
    /\ ret' = [kind |-> "concepts", value |-> get_mastered_concepts(value_memory)]
    /\ op' = [name |-> "get_mastered_concepts"]
    /\ ncalls' = ncalls + 1
    /\ solo_ret' = NoReturn
    /\ UNCHANGED <<value_memory, key_memory, call_limit, observed, solo>>
    /\ UNCHANGED <<threads, pure, sel_vars>>

\* DKVMNEngine.get_weak_concepts
GetWeakConcepts ==
    /\ ncalls < call_limit
    /\ ret' = [kind |-> "concepts", value |-> get_weak_concepts(value_memory)]
    /\ op' = [name |-> "get_weak_concepts"]
    /\ ncalls' = ncalls + 1
    /\ solo_ret' = NoReturn
    /\ UNCHANGED <<value_memory, key_memory, call_limit, observed, solo>>
    /\ UNCHANGED <<threads, pure, sel_vars>>

(***************************************************************************)
(* AdaptivePracticeEngine.  A ContentItem is a record; difficulty and      *)
(* weight are in 1/Unit, estimated_time in minutes.  A cognitive load is   *)
(* in 1/(Unit*Unit).                                                       *)
(***************************************************************************)

\* 1.0 as a cognitive load.
LoadOne == Unit * Unit

\* CognitiveLoadConfig
min_load == 400 * Unit

max_load == 850 * Unit

ContentItem(item_id, concept_id, difficulty, weight, estimated_time, scaffolding_available, prerequisites) ==
    [item_id |-> item_id, concept_id |-> concept_id, difficulty |-> difficulty,
     weight |-> weight, estimated_time |-> estimated_time,
     scaffolding_available |-> scaffolding_available,
     prerequisites |-> prerequisites]

\* dict.get(key, default)
Get(d, key, default) == IF key \in DOMAIN d THEN d[key] ELSE default

\* The mastery calculate_cognitive_load assumes for a concept absent from the
\* map: the literal 0.3, read on the 0-100 scale.
load_default_mastery == (3 * Unit) \div 10

\* The mastery the filter and the ZPD ranking assume for an absent concept: 30.0.
filter_default_mastery == 30 * Unit

\* weight * difficulty * (1 - ki) of one item, in 1/(100*Unit*Unit).
load_contribution(item, mastery) ==
    LET ki == Get(mastery, item.concept_id, load_default_mastery)
    IN  ((item.weight * item.difficulty) \div Unit) * (M100 - ki)

\* AdaptivePracticeEngine.calculate_cognitive_load
calculate_cognitive_load(content_items, mastery) ==
    IF content_items = <<>> THEN 0
    ELSE LET total_load ==
                 SumSeq([i \in 1..Len(content_items) |->
                            load_contribution(content_items[i], mastery)])
         IN  (total_load \div Len(content_items)) \div (M100 \div Unit)

\* A plausible slip: the docstring's "mastery > 85%" instead of >= 85.0.
filter_keeps_strict(item, mastery, count) ==
    LET m == Get(mastery, item.concept_id, filter_default_mastery)
    IN  IF m > 85 * Unit THEN FALSE
        ELSE IF m >= 60 * Unit THEN count < 2
        ELSE count < 10

\* A plausible slip: the caps off by one (count <= cap).
filter_keeps_off_by_one(item, mastery, count) ==
    LET m == Get(mastery, item.concept_id, filter_default_mastery)
    IN  IF m >= 85 * Unit THEN FALSE
        ELSE IF m >= 60 * Unit THEN count <= 2
        ELSE count <= 10

\* _filter_by_mastery, one item: whether it is kept, given how many items of
\* its concept were kept before it.
filter_keeps(item, mastery, count) ==
    LET m == Get(mastery, item.concept_id, filter_default_mastery)
    IN  IF m >= 85 * Unit THEN FALSE
        ELSE IF m >= 60 * Unit THEN count < 2
        ELSE count < 10

\* How many items of a list belong to a concept (concept_counts).
CountConcept(items, concept_id) ==
    Cardinality({i \in 1..Len(items) : items[i].concept_id = concept_id})

\* AdaptivePracticeEngine._filter_by_mastery
RECURSIVE FilterFrom(_, _, _)
FilterFrom(content, mastery, filtered) ==
    IF content = <<>> THEN filtered
    ELSE LET item == Head(content)
             keep == filter_keeps(item, mastery,
                                  CountConcept(filtered, item.concept_id))
         IN  FilterFrom(Tail(content), mastery,
                        IF keep THEN Append(filtered, item) ELSE filtered)

filter_by_mastery(content, mastery) == FilterFrom(content, mastery, <<>>)

\* The minimum of a non-empty list of numbers.
RECURSIVE MinSeq(_)
MinSeq(s) == IF Len(s) = 1 THEN s[1] ELSE Min(Head(s), MinSeq(Tail(s)))

\* The ZPD score of one item, in 1/Unit (_prioritize_by_zpd, the loop body).
zpd_score(item, mastery, velocities) ==
    LET m == Get(mastery, item.concept_id, filter_default_mastery)
        velocity == Get(velocities, item.concept_id, 0)
        zpd_distance == item.difficulty * (M100 \div Unit) - m
        base == IF 10 * Unit <= zpd_distance /\ zpd_distance <= 30 * Unit THEN 1000
                ELSE IF 0 <= zpd_distance /\ zpd_distance < 10 * Unit THEN 600
                ELSE IF 30 * Unit < zpd_distance /\ zpd_distance <= 50 * Unit
                     THEN (IF item.scaffolding_available THEN 700 ELSE 300)
                ELSE 200
        boosted == IF velocity > 0 THEN (base * 12) \div 10 ELSE base
        prereq_mastery == [i \in 1..Len(item.prerequisites) |->
                              Get(mastery, item.prerequisites[i], 0)]
    IN  IF prereq_mastery # <<>> /\ MinSeq(prereq_mastery) < 60 * Unit
        THEN boosted \div 2
        ELSE boosted

\* list.sort(key=score, reverse=True): stable, highest score first.
RECURSIVE InsertByScore(_, _, _, _)
InsertByScore(sorted, item, mastery, velocities) ==
    IF sorted = <<>> THEN <<item>>
    ELSE IF zpd_score(Head(sorted), mastery, velocities)
              >= zpd_score(item, mastery, velocities)
         THEN <<Head(sorted)>> \o InsertByScore(Tail(sorted), item, mastery, velocities)
         ELSE <<item>> \o sorted

RECURSIVE SortFrom(_, _, _, _)
SortFrom(content, mastery, velocities, sorted) ==
    IF content = <<>> THEN sorted
    ELSE SortFrom(Tail(content), mastery, velocities,
                  InsertByScore(sorted, Head(content), mastery, velocities))

\* AdaptivePracticeEngine._prioritize_by_zpd
prioritize_by_zpd(content, mastery, velocities) ==
    SortFrom(content, mastery, velocities, <<>>)

\* A plausible slip: the variant built without scaffolding_available=False.
Scaffolded_still_scaffoldable(item) ==
    ContentItem(item.item_id \o "_scaffolded", item.concept_id,
                (item.difficulty * 7) \div 10, item.weight,
                item.estimated_time + 2, item.scaffolding_available, <<>>)

\* The scaffolded variant select_next_content builds of an item.
Scaffolded(item) ==
    ContentItem(item.item_id \o "_scaffolded", item.concept_id,
                (item.difficulty * 7) \div 10, item.weight,
                item.estimated_time + 2, FALSE, <<>>)

\* A plausible slip: the projected load compared with 1.0, the top of the
\* load scale, in place of max_load.
ItemFits_below_one(selected, item, mastery) ==
    calculate_cognitive_load(Append(selected, item), mastery) <= LoadOne

\* The first load check of the packing loop.
ItemFits(selected, item, mastery) ==
    calculate_cognitive_load(Append(selected, item), mastery) <= max_load

\* A plausible slip: the scaffolded variant accepted without a second check.
ScaffoldedFitsUnchecked(selected, item, mastery) == TRUE

\* The second load check, with the scaffolded variant substituted.
ScaffoldedFits(selected, item, mastery) ==
    calculate_cognitive_load(Append(selected, Scaffolded(item)), mastery) <= max_load

\* sum(item.estimated_time for item in items)
TotalTime(items) == SumSeq([i \in 1..Len(items) |-> items[i].estimated_time])

\* A plausible slip: the TOO_EASY branch left out.
get_load_status_no_floor(cognitive_load) ==
    IF cognitive_load > max_load THEN "OVERWHELMING" ELSE "OPTIMAL"

\* AdaptivePracticeEngine._get_load_status
get_load_status(cognitive_load) ==
    IF cognitive_load < min_load THEN "TOO_EASY"
    ELSE IF cognitive_load > max_load THEN "OVERWHELMING"
    ELSE "OPTIMAL"

\* AdaptivePracticeEngine.generate_practice_session: the session plan built
\* from the content select_next_content returned (all but the random
\* session_id and the per-concept coverage).
practice_session(selected_content, mastery) ==
    LET cognitive_load == calculate_cognitive_load(selected_content, mastery)
    IN  [content_items |-> [i \in 1..Len(selected_content) |->
                               [item_id |-> selected_content[i].item_id,
                                concept_id |-> selected_content[i].concept_id,
                                difficulty |-> selected_content[i].difficulty,
                                estimated_time |-> selected_content[i].estimated_time]],
         total_items |-> Len(selected_content),
         estimated_duration |-> TotalTime(selected_content),
         cognitive_load |-> cognitive_load,
         load_status |-> get_load_status(cognitive_load),
         zpd_alignment |-> IF min_load <= cognitive_load /\ cognitive_load <= max_load
                           THEN "Optimal" ELSE "Needs Adjustment"]

(***************************************************************************)
(* Concurrent requests.  The server runs each request on its own thread    *)
(* (app.py, async_mode="threading") and calculate_mastery takes no lock:   *)
(* a thread switch can fall between the engine's read_mastery call and its *)
(* write_mastery call.  Each thread makes one call.                        *)
(***************************************************************************)

\* calculate_mastery up to and including the read of the memory.
Enter(t, concept_id, is_correct, current_mastery, response_history, related_concepts) ==
    /\ threads[t].pc = "idle"
    /\ threads' = [threads EXCEPT ![t] =
            [pc |-> "read",
             concept_id |-> concept_id,
             is_correct |-> is_correct,
             current_mastery |-> current_mastery,
             response_history |-> response_history,
             related_concepts |-> related_concepts,
             bkt_mastery |-> update_mastery(current_mastery, is_correct),
             dkt_analysis |-> analyze_pattern(response_history),
             dkvmn_mastery |-> read_mastery(value_memory, key_memory,
                                            concept_id, related_concepts)]]
    /\ UNCHANGED kt_vars
    /\ UNCHANGED <<pure, sel_vars>>

\* calculate_mastery from the fusion to the return: the write-back.
Complete(t) ==
    LET me == threads[t]
        final_mastery == fuse(me.bkt_mastery, me.dkt_analysis, me.dkvmn_mastery)
        result == MasteryResult(me.bkt_mastery, me.dkt_analysis,
                                me.dkvmn_mastery, final_mastery)
    IN  /\ me.pc = "read"
        /\ value_memory' = write_value(value_memory, me.concept_id, final_mastery,
                                       me.related_concepts)
        /\ key_memory' = write_keys(key_memory, me.concept_id, me.related_concepts)
        /\ ret' = [kind |-> "mastery", value |-> result]
        /\ op' = [name |-> "calculate_mastery", student_id |-> "student_001",
                  concept_id |-> me.concept_id,
                  current_mastery |-> me.current_mastery]
        /\ ncalls' = ncalls + 1
        /\ observed' = observed
                            \cup {<<me.concept_id, r>> : r \in Range(me.related_concepts)}
        /\ UNCHANGED call_limit
        /\ threads' = [threads EXCEPT ![t] =
                [pc |-> "done",
                 concept_id |-> me.concept_id,
                 is_correct |-> me.is_correct,
                 current_mastery |-> me.current_mastery,
                 response_history |-> me.response_history,
                 related_concepts |-> me.related_concepts,
                 result |-> result]]
        /\ UNCHANGED <<solo, solo_ret>>
        /\ UNCHANGED <<pure, sel_vars>>

(***************************************************************************)
(* The stateless functions, applied once to drawn arguments.               *)
(***************************************************************************)

\* Priors on a grid of a tenth of a point over [0,100].
PriorGrid == {k * (Unit \div 10) : k \in 0..1000}

\* BKTEngine.update_mastery(current_mastery, is_correct)
BKTUpdate(current_mastery, is_correct) ==
    /\ pure = NoCall
    /\ pure' = [name |-> "update_mastery", current_mastery |-> current_mastery,
                is_correct |-> is_correct,
                value |-> update_mastery(current_mastery, is_correct)]
    /\ UNCHANGED <<kt_vars, threads, sel_vars>>

(***************************************************************************)
(* The content selector.  The drawn arguments put no ZPD distance within   *)
(* float rounding of a band edge (0.1, 0.3, 0.5), where the rounding of    *)
(* the float subtraction, not the arithmetic, decides the band.            *)
(***************************************************************************)

\* Items of one content list.
MaxItems == 3

\* The content library of the module's example, and three heavy items of a
\* concept the example's mastery map does not hold.
q1 == ContentItem("q1", "algebra_linear_equations", 400, 1000, 5, TRUE, <<>>)

q2 == ContentItem("q2", "algebra_linear_equations", 600, 1000, 5, TRUE, <<>>)

q3 == ContentItem("q3", "algebra_quadratic", 700, 1000, 6, TRUE, <<>>)

q4 == ContentItem("q4", "algebra_systems", 800, 1000, 6, TRUE, <<>>)

q5 == ContentItem("q5", "geometry_triangles", 300, 1500, 5, TRUE, <<>>)

q6 == ContentItem("q6", "geometry_triangles", 500, 1500, 6, TRUE, <<>>)

q7 == ContentItem("q7", "calculus_limits", 700, 1500, 6, TRUE, <<>>)

q8 == ContentItem("q8", "calculus_limits", 900, 1500, 5, TRUE, <<"algebra_quadratic">>)

q9 == ContentItem("q9", "calculus_limits", 900, 1500, 5, FALSE, <<>>)

ExampleContent == <<q1, q2, q3, q4, q5, q6>>

ExampleMastery ==
    [algebra_linear_equations |-> 45 * Unit, algebra_quadratic |-> 72 * Unit,
     algebra_systems |-> 88 * Unit, geometry_triangles |-> 35 * Unit]

ExampleVelocity ==
    [algebra_linear_equations |-> 5 * Unit, geometry_triangles |-> (-2) * Unit]

\* A map on the thresholds: exactly 85.0, exactly 60.0, and 0.0.
ThresholdMastery ==
    [algebra_linear_equations |-> 60 * Unit, algebra_systems |-> 85 * Unit,
     calculus_limits |-> 0]

NoEntries == <<>>

\* The lists of at most n elements of S.
RECURSIVE SeqsUpTo(_, _)
SeqsUpTo(S, n) ==
    IF n = 0 THEN {<<>>}
    ELSE LET shorter == SeqsUpTo(S, n - 1)
         IN  shorter \cup {Append(q, x) : q \in shorter, x \in S}

Catalog == {q2, q3, q4, q7, q8, q9}

\* Eleven items of one concept, one more than the focused-practice cap.
DrillIds == <<"r01", "r02", "r03", "r04", "r05", "r06", "r07", "r08", "r09", "r10", "r11">>

DrillContent ==
    [i \in 1..Len(DrillIds) |->
        ContentItem(DrillIds[i], "geometry_triangles", 500, 1500, 2, TRUE, <<>>)]

ContentLists == SeqsUpTo(Catalog, MaxItems) \cup {ExampleContent, DrillContent}

MasteryMaps == {ExampleMastery, ThresholdMastery, NoEntries}

VelocityMaps == {ExampleVelocity, NoEntries}

\* session_time_remaining, in minutes.
Budgets == {6, 10, 30}

\* select_next_content entered with its arguments, nothing done yet.
SelInit ==
    /\ available_content \in ContentLists
    /\ student_mastery \in MasteryMaps
    /\ learning_velocity \in VelocityMaps
    /\ session_time_remaining \in Budgets
    /\ prioritized = <<>>
    /\ next_item = 0
    /\ selected_items = <<>>
    /\ current_time = 0
    /\ sel_pc = "start"

\* No selection in progress.
SelIdle ==
    /\ available_content = <<>>
    /\ student_mastery = <<>>
    /\ learning_velocity = <<>>
    /\ session_time_remaining = 0
    /\ prioritized = <<>>
    /\ next_item = 0
    /\ selected_items = <<>>
    /\ current_time = 0
    /\ sel_pc = "idle"

\* The filter and the ranking, before the loop.
SelectStart ==
    /\ sel_pc = "start"
    /\ prioritized' = prioritize_by_zpd(
            filter_by_mastery(available_content, student_mastery),
            student_mastery, learning_velocity)
    /\ next_item' = 1
    /\ sel_pc' = "packing"
    /\ UNCHANGED <<sel_args, selected_items, current_time>>
    /\ UNCHANGED <<kt_vars, threads, pure>>

\* The loop's candidate.
Candidate == prioritized[next_item]

InLoop == sel_pc = "packing" /\ next_item <= Len(prioritized)

OverBudget == current_time + Candidate.estimated_time > session_time_remaining

\* A plausible slip: continue in place of break, the scan going on to look for
\* a shorter item.
PackBreak_continue ==
    /\ InLoop
    /\ OverBudget
    /\ next_item' = next_item + 1
    /\ UNCHANGED <<sel_args, prioritized, selected_items, current_time, sel_pc>>
    /\ UNCHANGED <<kt_vars, threads, pure>>

\* The candidate's duration exceeds what is left: break, and return.
PackBreak ==
    /\ InLoop
    /\ OverBudget
    /\ sel_pc' = "done"
    /\ UNCHANGED <<sel_args, prioritized, next_item, selected_items, current_time>>
    /\ UNCHANGED <<kt_vars, threads, pure>>

\* The candidate passes the load check as it is.
PackAccept ==
    /\ InLoop
    /\ ~OverBudget
    /\ ItemFits(selected_items, Candidate, student_mastery)
    /\ selected_items' = Append(selected_items, Candidate)
    /\ current_time' = current_time + Candidate.estimated_time
    /\ next_item' = next_item + 1
    /\ UNCHANGED <<sel_args, prioritized, sel_pc>>
    /\ UNCHANGED <<kt_vars, threads, pure>>

\* The candidate fails the load check and its scaffolded variant passes.
PackScaffolded ==
    /\ InLoop
    /\ ~OverBudget
    /\ ~ItemFits(selected_items, Candidate, student_mastery)
    /\ Candidate.scaffolding_available
    /\ ScaffoldedFits(selected_items, Candidate, student_mastery)
    /\ selected_items' = Append(selected_items, Scaffolded(Candidate))
    /\ current_time' = current_time + Scaffolded(Candidate).estimated_time
    /\ next_item' = next_item + 1
    /\ UNCHANGED <<sel_args, prioritized, sel_pc>>
    /\ UNCHANGED <<kt_vars, threads, pure>>

\* The candidate fails the load check and no scaffolded variant passes: skipped.
PackSkip ==
    /\ InLoop
    /\ ~OverBudget
    /\ ~ItemFits(selected_items, Candidate, student_mastery)
    /\ ~(Candidate.scaffolding_available
         /\ ScaffoldedFits(selected_items, Candidate, student_mastery))
    /\ next_item' = next_item + 1
    /\ UNCHANGED <<sel_args, prioritized, selected_items, current_time, sel_pc>>
    /\ UNCHANGED <<kt_vars, threads, pure>>

\* The list is exhausted: return selected_items.
PackReturn ==
    /\ sel_pc = "packing"
    /\ next_item > Len(prioritized)
    /\ sel_pc' = "done"
    /\ UNCHANGED <<sel_args, prioritized, next_item, selected_items, current_time>>
    /\ UNCHANGED <<kt_vars, threads, pure>>

\* Item lists calculate_cognitive_load is applied to: content lists and their
\* scaffolded variants.
LoadLists == ContentLists \cup {<<Scaffolded(q)>> : q \in Catalog}

\* AdaptivePracticeEngine.calculate_cognitive_load(content_items, student_mastery)
CognitiveLoad(content_items, mastery) ==
    /\ pure = NoCall
    /\ pure' = [name |-> "calculate_cognitive_load", content_items |-> content_items,
                student_mastery |-> mastery,
                value |-> calculate_cognitive_load(content_items, mastery)]
    /\ UNCHANGED <<kt_vars, threads, sel_vars>>

\* Length of a drawn response history.
MaxHist == 4

\* Responses of a drawn history: right or wrong, untimed or answered in 2 s.
PatternResponses == {Response(ok, t) : ok \in BOOLEAN, t \in {NoTime, 2 * Unit}}

\* Histories analyze_pattern is applied to: every short one, those of the
\* engine calls, and one longer than the window (seven right, five wrong).
PatternHistories ==
    SeqsUpTo(PatternResponses, MaxHist) \cup Histories
        \cup {Repeat(Response(TRUE, NoTime), 7) \o Repeat(Response(FALSE, NoTime), 5)}

\* DKTEngine.analyze_pattern(response_history)
AnalyzePattern(response_history) ==
    /\ pure = NoCall
    /\ pure' = [name |-> "analyze_pattern", response_history |-> response_history,
                value |-> analyze_pattern(response_history)]
    /\ UNCHANGED <<kt_vars, threads, sel_vars>>

\* Fused mastery values the returned dict is built from: every hundredth of a
\* point over [0,100], and the values a thousandth to either side of the two
\* thresholds.
FinalGrid ==
    {k * (Unit \div 100) : k \in 0..(100 * 100)}
        \cup {60 * Unit - 1, 60 * Unit + 1, 85 * Unit - 1, 85 * Unit + 1}

\* The return statement of calculate_mastery for a fused mastery: the dict
\* with needs_practice and the recommendation.  The components are those of
\* a first call without history.
ReturnResult(final_mastery) ==
    /\ pure = NoCall
    /\ pure' = [name |-> "mastery_result", final_mastery |-> final_mastery,
                value |-> MasteryResult(final_mastery, analyze_pattern(<<>>),
                                        default_mastery, final_mastery)]
    /\ UNCHANGED <<kt_vars, threads, sel_vars>>

(***************************************************************************)
(* EngagementDetectionEngine (backend/ai_engine/engagement_detection.py).  *)
(* Scores are in 1/Unit points, rates and the understanding level in       *)
(* 1/Unit, durations in 1/Unit minutes, response times in 1/Unit seconds.  *)
(***************************************************************************)

ImplicitSignals(login_frequency, avg_session_duration, time_on_task, interaction_count, response_times, task_completion_rate, reattempt_rate, optional_resource_usage, discussion_participation) ==
    [login_frequency |-> login_frequency,
     avg_session_duration |-> avg_session_duration,
     time_on_task |-> time_on_task,
     interaction_count |-> interaction_count,
     response_times |-> response_times,
     task_completion_rate |-> task_completion_rate,
     reattempt_rate |-> reattempt_rate,
     optional_resource_usage |-> optional_resource_usage,
     discussion_participation |-> discussion_participation]

ExplicitSignals(poll_responses, understanding_level, participation_rate, quiz_accuracy) ==
    [poll_responses |-> poll_responses, understanding_level |-> understanding_level,
     participation_rate |-> participation_rate, quiz_accuracy |-> quiz_accuracy]

\* A detected behaviour: the fields the scoring reads.
Behavior(type, severity) == [type |-> type, severity |-> severity]

\* The score of the mean response time: 50 under 3 s, 100 under 30 s, then
\* two points less per second, floored at 0; 50 without response times.
response_time_score(response_times) ==
    IF response_times = <<>> THEN 50 * Unit
    ELSE LET avg_response_time == SumSeq(response_times) \div Len(response_times)
         IN  IF avg_response_time < 3 * Unit THEN 50 * Unit
             ELSE IF avg_response_time < 30 * Unit THEN M100
             ELSE Max(0, M100 - (avg_response_time - 30 * Unit) * 2)

\* A plausible slip: a weight mistyped (reattempt 0.15 for 0.05), so that the
\* weights no longer sum to 1.
calculate_implicit_score_overweighted(signals) ==
    LET login_score == Min(M100, (signals.login_frequency * M100) \div 7)
        duration_score == Min(M100, (signals.avg_session_duration * 100) \div 30)
        time_on_task_score == Min(M100, (signals.time_on_task * 100) \div 120)
        interaction_score == Min(M100, (signals.interaction_count * M100) \div 50)
        completion_score == signals.task_completion_rate * 100
        reattempt_score == Min(M100, signals.reattempt_rate * 150)
        resource_score == Min(M100, (signals.optional_resource_usage * M100) \div 5)
        discussion_score == Min(M100, (signals.discussion_participation * M100) \div 3)
    IN  (login_score * 15 + duration_score * 15 + time_on_task_score * 15
         + interaction_score * 10 + response_time_score(signals.response_times) * 10
         + completion_score * 20 + reattempt_score * 15 + resource_score * 5
         + discussion_score * 5) \div 100

\* EngagementDetectionEngine._calculate_implicit_score
calculate_implicit_score(signals) ==
    LET login_score == Min(M100, (signals.login_frequency * M100) \div 7)
        duration_score == Min(M100, (signals.avg_session_duration * 100) \div 30)
        time_on_task_score == Min(M100, (signals.time_on_task * 100) \div 120)
        interaction_score == Min(M100, (signals.interaction_count * M100) \div 50)
        completion_score == signals.task_completion_rate * 100
        reattempt_score == Min(M100, signals.reattempt_rate * 150)
        resource_score == Min(M100, (signals.optional_resource_usage * M100) \div 5)
        discussion_score == Min(M100, (signals.discussion_participation * M100) \div 3)
    IN  (login_score * 15 + duration_score * 15 + time_on_task_score * 15
         + interaction_score * 10 + response_time_score(signals.response_times) * 10
         + completion_score * 20 + reattempt_score * 5 + resource_score * 5
         + discussion_score * 5) \div 100

\* EngagementDetectionEngine._calculate_explicit_score
calculate_explicit_score(signals) ==
    LET poll_score == Min(M100, (signals.poll_responses * M100) \div 5)
        understanding_score == (signals.understanding_level * 100) \div 5
        participation_score == signals.participation_rate * 100
        accuracy_score == signals.quiz_accuracy * 100
    IN  (poll_score * 2 + understanding_score * 3 + participation_score * 3
         + accuracy_score * 2) \div 10

\* The number of behaviours of a severity.
CountSeverity(behaviors, severity) ==
    Cardinality({i \in 1..Len(behaviors) : behaviors[i].severity = severity})

\* The penalty loop of calculate_engagement_score, in 1/Unit points.
engagement_penalty(behaviors) ==
    (5 * CountSeverity(behaviors, "MONITOR") + 10 * CountSeverity(behaviors, "AT_RISK")
     + 20 * CountSeverity(behaviors, "CRITICAL")) * Unit

\* A plausible slip: the MONITOR rule tested before the AT_RISK rule.
classify_engagement_reordered(score, behaviors) ==
    LET critical_behaviors == CountSeverity(behaviors, "CRITICAL")
        at_risk_behaviors == CountSeverity(behaviors, "AT_RISK")
    IN  IF critical_behaviors > 0 \/ score < 30 * Unit THEN "CRITICAL"
        ELSE IF at_risk_behaviors = 1 \/ score < 65 * Unit THEN "MONITOR"
        ELSE IF at_risk_behaviors >= 2 \/ score < 50 * Unit THEN "AT_RISK"
        ELSE IF score < 75 * Unit THEN "PASSIVE"
        ELSE "ENGAGED"

\* EngagementDetectionEngine._classify_engagement
classify_engagement(score, behaviors) ==
    LET critical_behaviors == CountSeverity(behaviors, "CRITICAL")
        at_risk_behaviors == CountSeverity(behaviors, "AT_RISK")
    IN  IF critical_behaviors > 0 \/ score < 30 * Unit THEN "CRITICAL"
        ELSE IF at_risk_behaviors >= 2 \/ score < 50 * Unit THEN "AT_RISK"
        ELSE IF at_risk_behaviors = 1 \/ score < 65 * Unit THEN "MONITOR"
        ELSE IF score < 75 * Unit THEN "PASSIVE"
        ELSE "ENGAGED"

\* EngagementDetectionEngine._generate_recommendations, each string by its
\* opening words.
generate_recommendations(level, behaviors) ==
    LET behavior_types == {behaviors[i].type : i \in 1..Len(behaviors)}
        by_level ==
            IF level = "CRITICAL"
            THEN <<"URGENT: Schedule immediate 1-on-1 meeting",
                   "Contact parents/guardians",
                   "Consider support services referral">>
            ELSE IF level = "AT_RISK"
            THEN <<"Schedule 1-on-1 check-in within 48 hours",
                   "Review recent assignments for difficulty issues",
                   "Consider peer mentoring or study group">>
            ELSE IF level = "MONITOR"
            THEN <<"Monitor progress for next 3-5 days",
                   "Provide encouragement and check understanding">>
            ELSE <<>>
        For(type, text) == IF type \in behavior_types THEN <<text>> ELSE <<>>
    IN  by_level
        \o For("quick_guess", "Add time-lock or reflection prompts to questions")
        \o For("bottom_out_hint", "Simplify content or provide more scaffolding")
        \o For("low_login_frequency",
               "Send reminder notifications or check technology access")
        \o For("declining_performance",
               "Review recent topic - may indicate knowledge gap")

\* The penalised, floored score of calculate_engagement_score, before rounding.
engagement_final_score(implicit_signals, explicit_signals, disengagement_behaviors) ==
    LET implicit_score == calculate_implicit_score(implicit_signals)
        explicit_score == calculate_explicit_score(explicit_signals)
        base_score == (implicit_score * 6 + explicit_score * 4) \div 10
        penalty == engagement_penalty(disengagement_behaviors)
    IN  Max(0, base_score - penalty)

\* EngagementDetectionEngine.calculate_engagement_score: the returned dict.
calculate_engagement_score(implicit_signals, explicit_signals, disengagement_behaviors) ==
    LET final_score == engagement_final_score(implicit_signals, explicit_signals,
                                              disengagement_behaviors)
        engagement_level == classify_engagement(final_score, disengagement_behaviors)
    IN  [engagement_score |-> Round2(final_score),
         implicit_component |-> Round2(calculate_implicit_score(implicit_signals)),
         explicit_component |-> Round2(calculate_explicit_score(explicit_signals)),
         engagement_level |-> engagement_level,
         penalty_applied |-> engagement_penalty(disengagement_behaviors),
         behaviors_detected |-> Len(disengagement_behaviors),
         recommendations |-> generate_recommendations(engagement_level,
                                                      disengagement_behaviors)]

\* Behaviours of one drawn list.
MaxBehaviors == 3

\* The signals of the module's example.
ExampleImplicit ==
    ImplicitSignals(2, 8500, 45 * Unit, 12, <<2500, 1800, 3200, 2100>>, 650, 100, 1, 0)

ExampleExplicit == ExplicitSignals(3, 2500, 700, 680)

\* Implicit signals: nothing at all, the example, an active learner with slow
\* answers, every signal beyond its ideal, and a mid-range learner.
ImplicitInputs ==
    { ImplicitSignals(0, 0, 0, 0, <<>>, 0, 0, 0, 0),
      ExampleImplicit,
      ImplicitSignals(5, 20 * Unit, 90 * Unit, 40, <<45 * Unit, 95 * Unit>>, 800, 300, 2, 1),
      ImplicitSignals(14, 60 * Unit, 300 * Unit, 200, <<12 * Unit>>, Unit, Unit, 9, 7),
      ImplicitSignals(4, 15 * Unit, 60 * Unit, 25, <<Unit, 2 * Unit>>, 500, 200, 1, 1) }

\* Explicit signals: the lowest of each domain, the example, a mid-range
\* learner and the highest of each domain.
ExplicitInputs ==
    { ExplicitSignals(0, Unit, 0, 0),
      ExampleExplicit,
      ExplicitSignals(4, 4 * Unit, 900, 850),
      ExplicitSignals(10, 5 * Unit, Unit, Unit) }

\* Behaviour records of the three severities.
BehaviorRecords ==
    { Behavior("quick_guess", "MONITOR"), Behavior("quick_guess", "AT_RISK"),
      Behavior("bottom_out_hint", "AT_RISK"), Behavior("long_inactivity", "MONITOR"),
      Behavior("declining_performance", "CRITICAL") }

BehaviorLists == SeqsUpTo(BehaviorRecords, MaxBehaviors)

\* EngagementDetectionEngine.calculate_engagement_score(implicit_signals,
\* explicit_signals, disengagement_behaviors)
CalculateEngagementScore(implicit_signals, explicit_signals, disengagement_behaviors) ==
    /\ pure = NoCall
    /\ pure' = [name |-> "calculate_engagement_score",
                implicit_signals |-> implicit_signals,
                explicit_signals |-> explicit_signals,
                disengagement_behaviors |-> disengagement_behaviors,
                final_score |-> engagement_final_score(implicit_signals,
                                                       explicit_signals,
                                                       disengagement_behaviors),
                value |-> calculate_engagement_score(implicit_signals,
                                                     explicit_signals,
                                                     disengagement_behaviors)]
    /\ UNCHANGED <<kt_vars, threads, sel_vars>>

(***************************************************************************)
(* detect_disengagement_behaviors.  A response is a dict: is_correct is     *)
(* read with r['is_correct'], the other keys with r.get(key, default).     *)
(* The description, detected_at and decline_percentage fields of a         *)
(* behaviour are left out.                                                 *)
(***************************************************************************)

\* The thresholds of EngagementDetectionEngine.__init__.
QUICK_GUESS_THRESHOLD == 3 * Unit

MAX_HINTS == 3

MANY_ATTEMPTS_THRESHOLD == 3

MIN_LOGIN_FREQUENCY == 3

MIN_SESSION_DURATION == 5 * Unit

\* A response with every key.
Answer(is_correct, response_time, hints_used, attempts) ==
    [is_correct |-> is_correct, response_time |-> response_time,
     hints_used |-> hints_used, attempts |-> attempts]

\* sum(1 for r in recent_responses if ...): the positions whose test is true.
CountWhere(tests) ==
    Cardinality({i \in 1..Len(tests) : tests[i]})

\* r.get('response_time', float('inf')) < QUICK_GUESS_THRESHOLD
IsQuickGuess(r) ==
    "response_time" \in DOMAIN r /\ r.response_time < QUICK_GUESS_THRESHOLD

\* A plausible slip: the hint test strict (> MAX_HINTS).
IsBottomOutHint_strict(r) == Get(r, "hints_used", 0) > MAX_HINTS

\* r.get('hints_used', 0) >= MAX_HINTS
IsBottomOutHint(r) == Get(r, "hints_used", 0) >= MAX_HINTS

\* r.get('attempts', 1) > MANY_ATTEMPTS_THRESHOLD
IsManyAttempts(r) == Get(r, "attempts", 1) > MANY_ATTEMPTS_THRESHOLD

\* IEEE 754 doubles, as far as the accuracy comparison needs them: nan, zero,
\* and sign, exponent e and 53 mantissa bits m (most significant first, the
\* first one 1) of the value 1.m[2..53] * 2^e.
NaN == [nan |-> TRUE, zero |-> FALSE, neg |-> FALSE, e |-> 0, m |-> <<>>]

Zero == [nan |-> FALSE, zero |-> TRUE, neg |-> FALSE, e |-> 0, m |-> <<>>]

Double(neg, e, m) == [nan |-> FALSE, zero |-> FALSE, neg |-> neg, e |-> e, m |-> m]

Zeros(n) == [i \in 1..n |-> 0]

\* Bits incremented by one unit in the last place; one bit longer on overflow.
RECURSIVE Increment(_)
Increment(bits) ==
    IF bits = <<>> THEN <<1>>
    ELSE IF bits[Len(bits)] = 0 THEN SubSeq(bits, 1, Len(bits) - 1) \o <<1>>
    ELSE Increment(SubSeq(bits, 1, Len(bits) - 1)) \o <<0>>

\* Round to nearest, ties to even: the bits of an exact positive value, the
\* first one 1 and worth 2^e, rounded to a double.
RoundToDouble(neg, e, bits) ==
    IF Len(bits) <= 53 THEN Double(neg, e, bits \o Zeros(53 - Len(bits)))
    ELSE LET kept == SubSeq(bits, 1, 53)
             guard == bits[54]
             sticky == \E i \in 55..Len(bits) : bits[i] = 1
             up == guard = 1 /\ (sticky \/ kept[53] = 1)
             rounded == IF up THEN Increment(kept) ELSE kept
         IN  IF Len(rounded) = 54 THEN Double(neg, e + 1, SubSeq(rounded, 1, 53))
             ELSE Double(neg, e, rounded)

\* How often p is doubled to reach q.
RECURSIVE Doublings(_, _)
Doublings(p, q) == IF p >= q THEN 0 ELSE 1 + Doublings(2 * p, q)

\* n quotient bits of rem/q by long division, then one bit telling whether a
\* remainder is left.
RECURSIVE QuotientBits(_, _, _)
QuotientBits(rem, q, n) ==
    IF n = 0 THEN << IF rem = 0 THEN 0 ELSE 1 >>
    ELSE IF 2 * rem >= q THEN <<1>> \o QuotientBits(2 * rem - q, q, n - 1)
    ELSE <<0>> \o QuotientBits(2 * rem, q, n - 1)

\* The double p / q of integers 0 <= p <= q, q > 0: the quotient correctly
\* rounded.
Quotient(p, q) ==
    IF p = 0 THEN Zero
    ELSE LET k == Doublings(p, q)
             scaled == p * (2 ^ k)
         IN  RoundToDouble(FALSE, -k, <<1>> \o QuotientBits(scaled - q, q, 53))

\* Whether |a| < |b|, for doubles that are not nan.
MagnitudeLess(a, b) ==
    IF b.zero THEN FALSE
    ELSE IF a.zero THEN TRUE
    ELSE IF a.e # b.e THEN a.e < b.e
    ELSE \E i \in 1..53 :
            /\ a.m[i] < b.m[i]
            /\ \A j \in 1..(i - 1) : a.m[j] = b.m[j]

\* X - Y of bit strings of one length, X >= Y, from the last place up.
RECURSIVE SubtractBits(_, _, _, _)
SubtractBits(X, Y, i, borrow) ==
    IF i = 0 THEN <<>>
    ELSE IF X[i] - Y[i] - borrow < 0
         THEN SubtractBits(X, Y, i - 1, 1) \o << X[i] - Y[i] - borrow + 2 >>
         ELSE SubtractBits(X, Y, i - 1, 0) \o << X[i] - Y[i] - borrow >>

\* The position of the first 1 of a bit string that has one.
FirstOne(bits) == CHOOSE i \in 1..Len(bits) :
                      bits[i] = 1 /\ \A j \in 1..(i - 1) : bits[j] = 0

\* |a| - |b| for |a| > |b| > 0: the exact difference, rounded.
MagnitudeMinus(neg, a, b) ==
    LET shift == a.e - b.e
        exact == SubtractBits(a.m \o Zeros(shift), Zeros(shift) \o b.m, 53 + shift, 0)
        first == FirstOne(exact)
    IN  RoundToDouble(neg, a.e - (first - 1), SubSeq(exact, first, Len(exact)))

\* a - b on doubles that are nan or not negative.
FloatMinus(a, b) ==
    IF a.nan \/ b.nan THEN NaN
    ELSE IF b.zero THEN a
    ELSE IF a.zero THEN Double(TRUE, b.e, b.m)
    ELSE IF a = b THEN Zero
    ELSE IF MagnitudeLess(a, b) THEN MagnitudeMinus(TRUE, b, a)
    ELSE MagnitudeMinus(FALSE, a, b)

\* The literal 0.2.
Fifth == Quotient(1, 5)

\* x > 0.2 on doubles: false for nan.
ExceedsFifth(x) == ~x.nan /\ ~x.zero /\ ~x.neg /\ MagnitudeLess(Fifth, x)

\* np.mean of a list of booleans: the count of True divided by the length; of
\* the empty list nan (numpy warns "Mean of empty slice" and returns nan).
np_mean(xs) ==
    IF xs = <<>> THEN NaN
    ELSE Quotient(Cardinality({i \in 1..Len(xs) : xs[i]}), Len(xs))

\* first_half_accuracy - second_half_accuracy
decline_of(recent_responses) ==
    LET mid == Len(recent_responses) \div 2
        is_correct == [i \in 1..Len(recent_responses) |-> recent_responses[i].is_correct]
        first_half_accuracy == np_mean(SubSeq(is_correct, 1, mid))
        second_half_accuracy == np_mean(SubSeq(is_correct, mid + 1, Len(is_correct)))
    IN  FloatMinus(first_half_accuracy, second_half_accuracy)

\* A plausible slip: a learner without any login rated CRITICAL.
login_severity_escalated(login_frequency) ==
    IF login_frequency < 1 THEN "CRITICAL"
    ELSE IF login_frequency < 2 THEN "AT_RISK"
    ELSE "MONITOR"

\* The severity of a LOW_LOGIN_FREQUENCY record.
login_severity(login_frequency) ==
    IF login_frequency < 2 THEN "AT_RISK" ELSE "MONITOR"

\* EngagementDetectionEngine.detect_disengagement_behaviors: the six tests in
\* the code's order, each appending at most one record.
detect_disengagement_behaviors(recent_responses, implicit_signals) ==
    LET quick_guesses == CountWhere([i \in 1..Len(recent_responses) |-> IsQuickGuess(recent_responses[i])])
        bottom_out_hints == CountWhere([i \in 1..Len(recent_responses) |-> IsBottomOutHint(recent_responses[i])])
        many_attempts == CountWhere([i \in 1..Len(recent_responses) |-> IsManyAttempts(recent_responses[i])])
        decline == decline_of(recent_responses)
    IN  (IF quick_guesses >= 3
         THEN << [type |-> "quick_guess",
                  severity |-> IF quick_guesses < 5 THEN "MONITOR" ELSE "AT_RISK",
                  count |-> quick_guesses] >>
         ELSE <<>>)
        \o (IF bottom_out_hints >= 2
            THEN << [type |-> "bottom_out_hint", severity |-> "AT_RISK",
                     count |-> bottom_out_hints] >>
            ELSE <<>>)
        \o (IF many_attempts >= 3
            THEN << [type |-> "many_attempts", severity |-> "MONITOR",
                     count |-> many_attempts] >>
            ELSE <<>>)
        \o (IF implicit_signals.login_frequency < MIN_LOGIN_FREQUENCY
            THEN << [type |-> "low_login_frequency",
                     severity |-> login_severity(implicit_signals.login_frequency),
                     count |-> implicit_signals.login_frequency] >>
            ELSE <<>>)
        \o (IF recent_responses # <<>> /\ ExceedsFifth(decline)
            THEN << [type |-> "declining_performance", severity |-> "AT_RISK"] >>
            ELSE <<>>)
        \o (IF implicit_signals.avg_session_duration < MIN_SESSION_DURATION
            THEN << [type |-> "long_inactivity", severity |-> "MONITOR",
                     avg_duration |-> implicit_signals.avg_session_duration] >>
            ELSE <<>>)

\* Responses of one drawn window.
MaxWindow == 5

\* The recent_responses of the module's example.
ExampleResponses ==
    << Answer(TRUE, 2 * Unit, 0, 1), Answer(FALSE, 1500, 3, 1),
       Answer(FALSE, 2500, 3, 4), Answer(TRUE, 15 * Unit, 1, 1) >>

\* Responses: a careless wrong one and a careless right one (fast, every
\* hint, many attempts), a wrong one on each threshold (3.0 s, 2 hints,
\* 3 attempts), and a right one with the is_correct key alone.
ResponseKinds ==
    { Answer(FALSE, Unit, 3, 5), Answer(TRUE, 2 * Unit, 3, 5),
      Answer(FALSE, 3 * Unit, 2, 3), [is_correct |-> TRUE] }

\* Ten responses: four of the first five right, three of the last five.
TenResponses ==
    << [is_correct |-> TRUE], [is_correct |-> TRUE], [is_correct |-> TRUE],
       [is_correct |-> TRUE], [is_correct |-> FALSE], [is_correct |-> TRUE],
       [is_correct |-> TRUE], [is_correct |-> TRUE], [is_correct |-> FALSE],
       [is_correct |-> FALSE] >>

Windows == SeqsUpTo(ResponseKinds, MaxWindow) \cup {ExampleResponses, TenResponses}

\* The implicit signals the detection is drawn with: no login and no session
\* time, the example (2 logins, sessions of 8.5 minutes), and a mid-range
\* learner (4 logins, sessions of 15 minutes).
DetectSignals ==
    { ImplicitSignals(0, 0, 0, 0, <<>>, 0, 0, 0, 0),
      ExampleImplicit,
      ImplicitSignals(4, 15 * Unit, 60 * Unit, 25, <<Unit, 2 * Unit>>, 500, 200, 1, 1) }

\* EngagementDetectionEngine.detect_disengagement_behaviors(student_id,
\* recent_responses, implicit_signals); student_id is not read.
DetectDisengagementBehaviors(recent_responses, implicit_signals) ==
    /\ pure = NoCall
    /\ pure' = [name |-> "detect_disengagement_behaviors",
                recent_responses |-> recent_responses,
                implicit_signals |-> implicit_signals,
                value |-> detect_disengagement_behaviors(recent_responses,
                                                         implicit_signals)]
    /\ UNCHANGED <<kt_vars, threads, sel_vars>>

\* The five values of EngagementLevel.
Levels == {"ENGAGED", "PASSIVE", "MONITOR", "AT_RISK", "CRITICAL"}

\* levels.count(level)
CountLevel(student_engagements, level) ==
    Cardinality({i \in 1..Len(student_engagements) :
                    student_engagements[i].engagement_level = level})

\* Whether a student's result is listed for the teacher's attention.
NeedsAttention(s) == s.engagement_level \in {"AT_RISK", "CRITICAL"}

\* EngagementDetectionEngine.analyze_class_engagement: the returned dict,
\* class_engagement_index in 1/Unit points, engagement_rate in tenths of a
\* percent.
analyze_class_engagement(student_engagements) ==
    IF student_engagements = <<>>
    THEN [class_engagement_index |-> 0, distribution |-> <<>>, alert_count |-> 0]
    ELSE LET scores == [i \in 1..Len(student_engagements) |->
                           student_engagements[i].engagement_score]
             class_index == SumSeq(scores) \div Len(scores)
             distribution == [level \in Levels |->
                                 CountLevel(student_engagements, level)]
             alert_count == distribution["AT_RISK"] + distribution["CRITICAL"]
         IN  [class_engagement_index |-> Round2(class_index),
              distribution |-> distribution,
              alert_count |-> alert_count,
              students_needing_attention |->
                  SelectSeq(student_engagements, NeedsAttention),
              trend |-> "stable",
              class_size |-> Len(student_engagements),
              engagement_rate |->
                  (2000 * (distribution["ENGAGED"] + distribution["PASSIVE"])
                   + Len(student_engagements)) \div (2 * Len(student_engagements))]

\* Students of one drawn class.
MaxClass == 4

\* One student result of each level, as calculate_engagement_score returns
\* them (the fields the aggregation reads).
StudentResults ==
    { [engagement_score |-> 82500, engagement_level |-> "ENGAGED"],
      [engagement_score |-> 70250, engagement_level |-> "PASSIVE"],
      [engagement_score |-> 80 * Unit, engagement_level |-> "MONITOR"],
      [engagement_score |-> 44130, engagement_level |-> "AT_RISK"],
      [engagement_score |-> 0, engagement_level |-> "CRITICAL"] }

Classes == SeqsUpTo(StudentResults, MaxClass)

\* EngagementDetectionEngine.analyze_class_engagement(student_engagements)
AnalyzeClassEngagement(student_engagements) ==
    /\ pure = NoCall
    /\ pure' = [name |-> "analyze_class_engagement",
                student_engagements |-> student_engagements,
                value |-> analyze_class_engagement(student_engagements)]
    /\ UNCHANGED <<kt_vars, threads, sel_vars>>

\* Scores _classify_engagement is called with: each threshold, the value a
\* hundredth below it, and the ends of the range.
ScoreGrid ==
    { 0, 30 * Unit - 10, 30 * Unit, 50 * Unit - 10, 50 * Unit, 65 * Unit - 10,
      65 * Unit, 75 * Unit - 10, 75 * Unit, M100 }

\* EngagementDetectionEngine._classify_engagement(score, behaviors)
ClassifyEngagement(score, behaviors) ==
    /\ pure = NoCall
    /\ pure' = [name |-> "classify_engagement", score |-> score,
                behaviors |-> behaviors,
                value |-> classify_engagement(score, behaviors)]
    /\ UNCHANGED <<kt_vars, threads, sel_vars>>

\* The explicit signals the pipeline is drawn with: the example's and the
\* highest of each domain.
PipelineExplicit == {ExampleExplicit, ExplicitSignals(10, 5 * Unit, Unit, Unit)}

\* The module's example pipeline: the behaviours detect_disengagement_behaviors
\* returns are passed, with the same implicit signals, to
\* calculate_engagement_score.
DetectThenScore(recent_responses, implicit_signals, explicit_signals) ==
    /\ pure = NoCall
    /\ LET behaviors == detect_disengagement_behaviors(recent_responses,
                                                       implicit_signals)
       IN  pure' = [name |-> "detect_then_score",
                    recent_responses |-> recent_responses,
                    implicit_signals |-> implicit_signals,
                    explicit_signals |-> explicit_signals,
                    behaviors |-> behaviors,
                    final_score |-> engagement_final_score(implicit_signals,
                                                           explicit_signals,
                                                           behaviors),
                    value |-> calculate_engagement_score(implicit_signals,
                                                         explicit_signals,
                                                         behaviors)]
    /\ UNCHANGED <<kt_vars, threads, sel_vars>>

(***************************************************************************)
(* Arguments outside their declared domains.                               *)
(***************************************************************************)

\* Prior masteries outside [0,100].
InvalidPriors == {(-50) * Unit, 150 * Unit}

\* A content item of difficulty 1.2 and one of duration -5 minutes.
q10 == ContentItem("q10", "calculus_limits", 1200, 1000, 4, TRUE, <<>>)

q11 == ContentItem("q11", "calculus_limits", 500, 1000, -5, TRUE, <<>>)

\* Content lists that hold one of them, alone or beside a valid item.
InvalidContentLists == {<<q10>>, <<q11>>, <<q9, q11>>, <<q3, q10>>}

\* select_next_content entered with a content list that holds such an item.
SelInvalidInit ==
    /\ available_content \in InvalidContentLists
    /\ student_mastery = ExampleMastery
    /\ learning_velocity = NoEntries
    /\ session_time_remaining \in Budgets
    /\ prioritized = <<>>
    /\ next_item = 0
    /\ selected_items = <<>>
    /\ current_time = 0
    /\ sel_pc = "start"

(***************************************************************************)
(* Specifications                                                          *)
(***************************************************************************)

Init == KTInit /\ pure = NoCall /\ SelIdle

\* student_id is never read by the engine: the calls of Spec are all made in
\* the name of one student, and SpecShared draws the student as well.
Next ==
    \/ \E c \in Concepts, ok \in BOOLEAN, m \in Priors, h \in Histories,
          R \in RelatedLists :
            CalculateMastery("student_001", c, ok, m, h, R)
    \/ \E c \in Concepts, R \in RelatedLists : ReadMastery(c, R)
    \/ \E c \in Concepts, m \in WriteValues, R \in RelatedLists :
            WriteMastery(c, m, R)
    \/ GetMasteredConcepts
    \/ GetWeakConcepts

\* The engine driven one call at a time.
Spec == Init /\ [][Next]_vars

SharedNext ==
    \E s \in Students, c \in Concepts, ok \in BOOLEAN, m \in Priors,
       h \in Histories, R \in RelatedLists :
        CalculateMastery(s, c, ok, m, h, R)

\* The /calculate route serving several students from the one kt_engine.
SpecShared == Init /\ [][SharedNext]_vars

ConcNext ==
    \/ \E t \in Threads, c \in Concepts, ok \in BOOLEAN, m \in Priors,
          h \in Histories, R \in RelatedLists :
            Enter(t, c, ok, m, h, R)
    \/ \E t \in Threads : Complete(t)

\* Two /calculate requests served concurrently.
SpecConc == Init /\ [][ConcNext]_vars

BKTNext == \E m \in PriorGrid, ok \in BOOLEAN : BKTUpdate(m, ok)

\* update_mastery applied to a drawn prior and outcome.
SpecBKT == Init /\ [][BKTNext]_vars

LoadNext == \E items \in LoadLists, m \in MasteryMaps : CognitiveLoad(items, m)

\* calculate_cognitive_load applied to a drawn item list and mastery map.
SpecLoad == Init /\ [][LoadNext]_vars

PatternNext == \E h \in PatternHistories : AnalyzePattern(h)

\* analyze_pattern applied to a drawn response history.
SpecPattern == Init /\ [][PatternNext]_vars

ResultNext == \E f \in FinalGrid : ReturnResult(f)

\* The result dict of calculate_mastery built for a drawn fused mastery.
SpecResult == Init /\ [][ResultNext]_vars

EngageNext ==
    \E i \in ImplicitInputs, e \in ExplicitInputs, b \in BehaviorLists :
        CalculateEngagementScore(i, e, b)

\* calculate_engagement_score applied to drawn signals and behaviours.
SpecEngage == Init /\ [][EngageNext]_vars

ClassNext == \E c \in Classes : AnalyzeClassEngagement(c)

\* analyze_class_engagement applied to drawn classes.
SpecClass == Init /\ [][ClassNext]_vars

DetectNext ==
    \/ \E w \in Windows, i \in DetectSignals : DetectDisengagementBehaviors(w, i)
    \/ \E w \in Windows, i \in DetectSignals, e \in PipelineExplicit :
            DetectThenScore(w, i, e)

\* detect_disengagement_behaviors applied to drawn windows and signals, alone
\* and followed by calculate_engagement_score.
SpecDetect == Init /\ [][DetectNext]_vars

ClassifyNext ==
    \E score \in ScoreGrid, behaviors \in BehaviorLists :
        ClassifyEngagement(score, behaviors)

\* _classify_engagement on drawn scores and behaviour lists.
SpecClassify == Init /\ [][ClassifyNext]_vars

InvalidInit == KTInit /\ pure = NoCall /\ SelInvalidInit

InvalidNext ==
    \/ \E c \in Concepts, ok \in BOOLEAN, m \in InvalidPriors, h \in Histories :
            CalculateMastery("student_001", c, ok, m, h, <<>>)
    \/ SelectStart
    \/ PackBreak
    \/ PackAccept
    \/ PackScaffolded
    \/ PackSkip
    \/ PackReturn

\* calculate_mastery and select_next_content called with arguments outside
\* their domains.
SpecInvalid == InvalidInit /\ [][InvalidNext]_vars

MemoryInit == DKVMNInit /\ pure = NoCall /\ SelIdle

MemoryNext ==
    \/ \E c \in Concepts, R \in RelatedLists : ReadMastery(c, R)
    \/ \E c \in Concepts, m \in WriteValues, R \in RelatedLists :
            WriteMastery(c, m, R)

\* The associative memory used on its own: write_mastery and read_mastery.
SpecMemory == MemoryInit /\ [][MemoryNext]_vars

SelectInit == KTInit /\ pure = NoCall /\ SelInit

SelectNext ==
    \/ SelectStart
    \/ PackBreak
    \/ PackAccept
    \/ PackScaffolded
    \/ PackSkip
    \/ PackReturn

\* select_next_content on drawn arguments, one loop iteration at a time.
SpecSelect == SelectInit /\ [][SelectNext]_vars

(***************************************************************************)
(* Properties                                                              *)
(***************************************************************************)

InRange(x, lo, hi) == lo <= x /\ x <= hi

\* C1: from an empty memory, after any sequence of calls with priors in
\* [0,100], the fused mastery every calculate_mastery call returns and every
\* value stored in value_memory lie in [0,100].
C1_FusedMasteryInRange ==
    /\ ret.kind = "mastery" => InRange(ret.value.mastery_score, 0, M100)
    /\ \A c \in DOMAIN value_memory : InRange(value_memory[c], 0, M100)

\* C1 witness: a later call whose pattern component is negative and whose
\* memory component is a fused value fed back by an earlier call.
C1_NegativePatternFedBack ==
    /\ ret.kind = "mastery"
    /\ ncalls >= 2
    /\ ret.value.dkt_component < 0
    /\ ret.value.dkvmn_component # default_mastery
    /\ op.concept_id \in DOMAIN value_memory

\* The two calls of the threads run one after the other, i first, from the
\* empty memory the engine is constructed with.
SequentialOutcome(i, j) ==
    LET first == calculate_mastery(<<>>, <<>>, threads[i].concept_id,
                                   threads[i].is_correct, threads[i].current_mastery,
                                   threads[i].response_history,
                                   threads[i].related_concepts)
        second == calculate_mastery(first.value_memory, first.key_memory,
                                    threads[j].concept_id, threads[j].is_correct,
                                    threads[j].current_mastery,
                                    threads[j].response_history,
                                    threads[j].related_concepts)
    IN  [value_memory |-> second.value_memory,
         key_memory |-> second.key_memory,
         components |-> [t \in Threads |->
                            IF t = i THEN first.result.dkvmn_component
                            ELSE second.result.dkvmn_component]]

\* C2: two concurrent calculate_mastery calls for the same concept leave the
\* value memory and the key memory, and return the memory components, of one
\* of the two sequential executions of the calls: no update is lost.
C2_CallsSerialized ==
    (/\ \A t \in Threads : threads[t].pc = "done"
     /\ threads[1].concept_id = threads[2].concept_id)
    => [value_memory |-> value_memory,
        key_memory |-> key_memory,
        components |-> [t \in Threads |-> threads[t].result.dkvmn_component]]
       \in {SequentialOutcome(1, 2), SequentialOutcome(2, 1)}

\* C3: what a calculate_mastery call returns for a student is what it returns
\* in the run without the calls made for the other students.
C3_CrossLearnerIndependence ==
    ret.kind = "mastery" => ret.value = solo_ret.value

\* The entry of a concept in a value memory, absent or a value.
Entry(vm, c) == IF c \in DOMAIN vm THEN <<vm[c]>> ELSE <<>>

Mastered(concept_id) ==
    concept_id \in DOMAIN student_mastery /\ student_mastery[concept_id] >= 85 * Unit

C6_SelectedLoadWithinMax ==
    sel_pc \in {"packing", "done"}
        => calculate_cognitive_load(selected_items, student_mastery) <= max_load

\* C6 witness: a returned session that holds a scaffolded substitute after
\* another accepted item.
C6_ScaffoldedSubstituteAccepted ==
    /\ sel_pc = "done"
    /\ \E i \in 2..Len(selected_items) :
            selected_items[i] \in {Scaffolded(q) : q \in Catalog}

\* C7: the estimated_time of the returned items, a scaffolded variant counted
\* at its longer duration, sums to at most session_time_remaining.
C7_SessionWithinTimeBudget ==
    sel_pc = "done" => TotalTime(selected_items) <= session_time_remaining

\* C8: calculate_cognitive_load returns a value in [0,1], and 0 for the empty
\* item list.
C8_LoadInUnitInterval ==
    pure.name = "calculate_cognitive_load"
        => /\ InRange(pure.value, 0, LoadOne)
           /\ pure.content_items = <<>> => pure.value = 0

\* C9: an item whose concept is absent from the mastery map contributes
\* weight * difficulty * (1 - 30/100) to the load.
C9_AbsentMasteryDefaultsTo30 ==
    (/\ pure.name = "calculate_cognitive_load"
     /\ Len(pure.content_items) = 1
     /\ pure.content_items[1].concept_id \notin DOMAIN pure.student_mastery)
    => pure.value =
         (((pure.content_items[1].weight * pure.content_items[1].difficulty) \div Unit)
            * (M100 - filter_default_mastery)) \div (M100 \div Unit)

\* C10: for every prior in [0,100] and both outcomes, update_mastery with the
\* default rates returns a posterior in [0,100].
C10_PosteriorInRange ==
    pure.name = "update_mastery" => InRange(pure.value, 0, M100)

\* C10 witness: the extremes, a wrong answer at prior 0 (posterior 20, the
\* transition alone) and a correct one at prior 100 (posterior 100).
C10_ExtremePriors ==
    /\ pure.name = "update_mastery"
    /\ \/ pure.current_mastery = 0 /\ ~pure.is_correct /\ pure.value = 20 * Unit
       \/ pure.current_mastery = M100 /\ pure.is_correct /\ pure.value = M100

Scenario45 ==
    /\ pure.name = "update_mastery"
    /\ pure.current_mastery = 45 * Unit
    /\ pure.is_correct

\* C12 as stated: prior 45 and a correct answer give a posterior within 0.5
\* of 58.0.
C12_PosteriorNear58 ==
    Scenario45 => InRange(pure.value, 58 * Unit - Unit \div 2, 58 * Unit + Unit \div 2)

\* C12 amended: prior 45 and a correct answer give a posterior within 0.5 of
\* 79.72 (0.7465 after Bayes' rule, then the learning transition).
C12_PosteriorNear79 ==
    Scenario45 => InRange(pure.value, 79720 - Unit \div 2, 79720 + Unit \div 2)

\* C12 witness: the scenario's call has returned, with the Bayes posterior
\* 74.65 behind its value.
C12_ScenarioComputed ==
    /\ Scenario45
    /\ p_l_given(pure.current_mastery, TRUE) = 74654

\* C13: for every response history, analyze_pattern returns a
\* predicted_mastery in [0,100] and a confidence in [0,1].
C13_PatternInRange ==
    pure.name = "analyze_pattern"
        => /\ InRange(pure.value.predicted_mastery, 0, M100)
           /\ InRange(pure.value.confidence, 0, Unit)

\* C14: the recommendation is SKIP iff final >= 85, LIGHT_REVIEW iff
\* 60 <= final < 85 and FOCUSED_PRACTICE iff final < 60; needs_practice is
\* true iff final < 85, hence false exactly when the recommendation is SKIP.
C14_RecommendationThresholds ==
    pure.name = "mastery_result"
        => LET final == pure.final_mastery
               r == pure.value
           IN  /\ r.recommendation = "SKIP" <=> final >= 85 * Unit
               /\ r.recommendation = "LIGHT_REVIEW"
                    <=> (60 * Unit <= final /\ final < 85 * Unit)
               /\ r.recommendation = "FOCUSED_PRACTICE" <=> final < 60 * Unit
               /\ r.needs_practice <=> final < 85 * Unit
               /\ ~r.needs_practice <=> r.recommendation = "SKIP"

\* C14 witness: the boundary, a fused mastery of exactly 85.0 returned as
\* SKIP without need of practice.
C14_BoundarySkips ==
    /\ pure.name = "mastery_result"
    /\ pure.final_mastery = 85 * Unit
    /\ pure.value.recommendation = "SKIP"
    /\ ~pure.value.needs_practice

\* C15: for signals within their domains and every behaviour list, the
\* engagement score lies in [0,100], and the level is CRITICAL iff the list
\* holds a CRITICAL behaviour or the penalised, floored score is < 30.
C15_EngagementScoreAndCritical ==
    pure.name = "calculate_engagement_score"
        => /\ InRange(pure.final_score, 0, M100)
           /\ InRange(pure.value.engagement_score, 0, M100)
           /\ pure.value.engagement_level = "CRITICAL"
                <=> \/ \E i \in 1..Len(pure.disengagement_behaviors) :
                            pure.disengagement_behaviors[i].severity = "CRITICAL"
                    \/ pure.final_score < 30 * Unit

\* C15 witness: every signal beyond its ideal and no behaviour, scored 100 and
\* not CRITICAL.
C15_TopScoreNotCritical ==
    /\ pure.name = "calculate_engagement_score"
    /\ pure.disengagement_behaviors = <<>>
    /\ pure.final_score = M100
    /\ pure.value.engagement_level = "ENGAGED"

\* Whether an item's difficulty and duration are within their domains.
ValidItem(item) == InRange(item.difficulty, 0, Unit) /\ item.estimated_time >= 0

\* C16: a calculate_mastery call given a prior outside [0,100] ends in a
\* validation error and leaves the memory as it was, and select_next_content
\* returns no session for a content list that holds an item of difficulty
\* outside [0,1] or of negative duration.
C16_InvalidInputsRejected ==
    /\ (op.name = "calculate_mastery" /\ ~InRange(op.current_mastery, 0, M100))
        => /\ ret.kind = "validation_error"
           /\ ncalls = 1 => (value_memory = <<>> /\ key_memory = <<>>)
    /\ (\E i \in 1..Len(available_content) : ~ValidItem(available_content[i]))
        => sel_pc # "done"

\* The example's call has returned: the six items, the four masteries, a
\* budget of 30 minutes.
ExampleSessionDone ==
    /\ sel_pc = "done"
    /\ available_content = ExampleContent
    /\ student_mastery = ExampleMastery
    /\ session_time_remaining = 30

\* C17: the session generated for the example holds no item of the concept
\* mastered at 88, and its cognitive load lies in [0.4,0.85] or the session is
\* flagged: load_status not OPTIMAL and zpd_alignment not 'Optimal'.
C17_ExampleSession ==
    ExampleSessionDone
        => LET session == practice_session(selected_items, student_mastery)
           IN  /\ \A i \in 1..session.total_items :
                    session.content_items[i].concept_id # "algebra_systems"
               /\ \/ InRange(session.cognitive_load, min_load, max_load)
                  \/ /\ session.load_status # "OPTIMAL"
                     /\ session.zpd_alignment # "Optimal"

\* C17 witness: the example's session, five items in 27 minutes, flagged
\* TOO_EASY.
C17_ExampleSessionFlagged ==
    /\ ExampleSessionDone
    /\ learning_velocity = ExampleVelocity
    /\ practice_session(selected_items, student_mastery).total_items = 5
    /\ practice_session(selected_items, student_mastery).estimated_duration = 27
    /\ practice_session(selected_items, student_mastery).load_status = "TOO_EASY"

\* C18: over read_mastery, write_mastery and calculate_mastery calls, a
\* concept in value memory stays in it, and a correlation key stays in key
\* memory with the weight it has.
C18_MemoryMonotone ==
    [][/\ DOMAIN value_memory \subseteq DOMAIN value_memory'
       /\ \A k \in DOMAIN key_memory :
            k \in DOMAIN key_memory' /\ key_memory'[k] = key_memory[k]]_vars

\* C18 witness: a write for one concept has left in place a correlation key
\* and a value that an earlier write for another concept stored.
C18_EarlierEntriesKept ==
    /\ op.name \in {"write_mastery", "calculate_mastery"}
    /\ ncalls = 2
    /\ \E k \in DOMAIN key_memory :
            k \notin {CorrelationKey(op.concept_id, r) : r \in Concepts}
    /\ DOMAIN value_memory \ {op.concept_id} # {}

\* The correlation weight of the claim: 0.5 if a write of c listed r as
\* related, 0.3 otherwise.
ObservedCorrelation(c, r) ==
    IF <<c, r>> \in observed THEN default_correlation ELSE unobserved_correlation

\* The value the claim gives read_mastery(c, R).
ClaimedRead(c, R) ==
    IF c \notin DOMAIN value_memory THEN 30 * Unit
    ELSE LET stored == SelectSeq(R, LAMBDA r : r \in DOMAIN value_memory)
             weighted == [i \in 1..Len(stored) |->
                            (value_memory[stored[i]] * ObservedCorrelation(c, stored[i]))
                                \div Unit]
         IN  IF stored = <<>> THEN value_memory[c]
             ELSE ((7 * value_memory[c]) \div 10)
                  + ((3 * (SumSeq(weighted) \div Len(weighted))) \div 10)

\* C19: read_mastery(c, R) returns 30.0 for a concept never written, value[c]
\* when no concept of R has a stored value, and otherwise 0.7 * value[c] + 0.3
\* * mean of value[r] * corr(c, r) over the stored r of R, corr(c, r) being 0.5
\* if a write of c listed r as related and 0.3 otherwise.
C19_ReadBlend ==
    op.name = "read_mastery" => ret.value = ClaimedRead(op.concept_id, op.related_concepts)

\* The cap of a concept: 2 at a mastery in [60,85), 10 below 60 or absent from
\* the map, 0 from 85 on.
ConceptCap(concept_id) ==
    LET m == Get(student_mastery, concept_id, 30 * Unit)
    IN  IF m >= 85 * Unit THEN 0 ELSE IF m >= 60 * Unit THEN 2 ELSE 10

\* Whether the j-th input item is among the first ConceptCap items of its
\* concept in the input's order.
WithinCap(j) ==
    CountConcept(SubSeq(available_content, 1, j), available_content[j].concept_id)
        <= ConceptCap(available_content[j].concept_id)

DrawnFromItem(returned, item) == returned = item \/ returned = Scaffolded(item)

\* Whether a returned list is drawn, in order, from distinct ranks of a
\* ranked list.
RECURSIVE DrawnFrom(_, _)
DrawnFrom(returned, ranked) ==
    IF returned = <<>> THEN TRUE
    ELSE IF ranked = <<>> THEN FALSE
    ELSE IF DrawnFromItem(Head(returned), Head(ranked))
         THEN DrawnFrom(Tail(returned), Tail(ranked))
         ELSE DrawnFrom(returned, Tail(ranked))

\* select_next_content has returned from the break at rank k: the first rank
\* whose duration exceeded the remaining budget.
StoppedAt(k) == sel_pc = "done" /\ next_item = k /\ k <= Len(prioritized)

\* C21: the packing is a linear scan without backtracking.  When rank k is the
\* first whose duration exceeds the remaining budget, the scan ends there with
\* the items selected so far, and the output is drawn from the ranks before k
\* only; while the budget admits the candidate, the scan moves on to the next
\* rank whatever the load check decides.
C21_LinearScanNoBacktracking ==
    /\ [](\A k \in 1..Len(prioritized) :
            StoppedAt(k)
                => /\ current_time + prioritized[k].estimated_time
                          > session_time_remaining
                   /\ DrawnFrom(selected_items, SubSeq(prioritized, 1, k - 1)))
    /\ [][/\ (InLoop /\ OverBudget)
                => (sel_pc' = "done" /\ selected_items' = selected_items)
          /\ (InLoop /\ ~OverBudget)
                => (sel_pc' = "packing" /\ next_item' = next_item + 1)
          /\ sel_pc = "done" => selected_items' = selected_items]_vars

\* C21 witness: the scan stopped at rank k although a later rank is short
\* enough for the remaining budget and would pass the load check; it is not in
\* the output.
C21_ShorterLaterItemLeftOut ==
    \E k \in 1..Len(prioritized) :
        /\ StoppedAt(k)
        /\ selected_items # <<>>
        /\ \E j \in (k + 1)..Len(prioritized) :
                /\ current_time + prioritized[j].estimated_time
                       <= session_time_remaining
                /\ ItemFits(selected_items, prioritized[j], student_mastery)
                /\ \A i \in 1..Len(selected_items) :
                        ~DrawnFromItem(selected_items[i], prioritized[j])

\* The other case of C21: rank i was reached and rejected for its load alone
\* (neither it nor its variant is in the output), and the item of a later
\* rank j is in the output.
C21_LaterItemAfterLoadSkip ==
    /\ sel_pc = "done"
    /\ \E i \in 1..Len(prioritized) : \E j \in (i + 1)..Len(prioritized) :
            /\ j < next_item
            /\ \A n \in 1..Len(selected_items) :
                    ~DrawnFromItem(selected_items[n], prioritized[i])
            /\ \E n \in 1..Len(selected_items) :
                    DrawnFromItem(selected_items[n], prioritized[j])

\* Whether a returned item is the variant the claim describes of an original.
IsVariantOf(returned, original) ==
    /\ returned.item_id = original.item_id \o "_scaffolded"
    /\ returned.concept_id = original.concept_id
    /\ returned.difficulty = (7 * original.difficulty) \div 10
    /\ returned.estimated_time = original.estimated_time + 2
    /\ returned.scaffolding_available = FALSE

\* C22: select_next_content never changes its arguments, and every returned
\* item is an input item as it was passed, or the variant of an input item
\* that has scaffolding available and whose own projected load, appended to
\* the items selected before it, exceeded 0.85.
C22_InputsKeptVariantsNew ==
    /\ [][available_content' = available_content
          /\ student_mastery' = student_mastery
          /\ learning_velocity' = learning_velocity
          /\ session_time_remaining' = session_time_remaining]_vars
    /\ [](\A i \in 1..Len(selected_items) :
            \/ \E j \in 1..Len(available_content) :
                    selected_items[i] = available_content[j]
            \/ \E j \in 1..Len(available_content) :
                    /\ IsVariantOf(selected_items[i], available_content[j])
                    /\ available_content[j].scaffolding_available
                    /\ calculate_cognitive_load(
                           Append(SubSeq(selected_items, 1, i - 1), available_content[j]),
                           student_mastery) > max_load)

\* C22 witness: a returned session that holds an input item as passed and,
\* after it, a variant, the variant's original still in the input.
C22_VariantBesideOriginal ==
    /\ sel_pc = "done"
    /\ \E i \in 1..Len(selected_items) : \E n \in (i + 1)..Len(selected_items) :
            /\ \E j \in 1..Len(available_content) :
                    selected_items[i] = available_content[j]
            /\ \E j \in 1..Len(available_content) :
                    IsVariantOf(selected_items[n], available_content[j])

\* C23: _classify_engagement returns the level of the first rule that matches,
\* in the order CRITICAL (a CRITICAL behaviour or score < 30), AT_RISK (two
\* AT_RISK behaviours or score < 50), MONITOR (one AT_RISK behaviour or
\* score < 65), PASSIVE (score < 75), ENGAGED; so PASSIVE and ENGAGED are not
\* returned for a list with an AT_RISK or CRITICAL behaviour, and ENGAGED is
\* returned iff score >= 75 and the list holds neither.
C23_FirstMatchingRule ==
    pure.name = "classify_engagement"
        => LET score == pure.score
               severities == {pure.behaviors[i].severity : i \in DOMAIN pure.behaviors}
               at_risk == Cardinality({i \in DOMAIN pure.behaviors :
                                          pure.behaviors[i].severity = "AT_RISK"})
               rules == << <<"CRITICAL" \in severities \/ score < 30 * Unit, "CRITICAL">>,
                           <<at_risk >= 2 \/ score < 50 * Unit, "AT_RISK">>,
                           <<at_risk = 1 \/ score < 65 * Unit, "MONITOR">>,
                           <<score < 75 * Unit, "PASSIVE">>,
                           <<TRUE, "ENGAGED">> >>
               first == CHOOSE n \in 1..5 :
                            rules[n][1] /\ \A m \in 1..(n - 1) : ~rules[m][1]
           IN  /\ pure.value = rules[first][2]
               /\ severities \cap {"AT_RISK", "CRITICAL"} # {}
                    => pure.value \notin {"PASSIVE", "ENGAGED"}
               /\ pure.value = "ENGAGED"
                    <=> (score >= 75 * Unit
                         /\ severities \cap {"AT_RISK", "CRITICAL"} = {})

\* C23 witness: a score of 75 or more with a single AT_RISK behaviour and no
\* CRITICAL one is classified MONITOR.
C23_BehaviourOverridesScore ==
    /\ pure.name = "classify_engagement"
    /\ Cardinality({i \in DOMAIN pure.behaviors :
                       pure.behaviors[i].severity = "AT_RISK"}) = 1
    /\ \A i \in DOMAIN pure.behaviors : pure.behaviors[i].severity # "CRITICAL"
    /\ pure.score >= 75 * Unit
    /\ pure.value = "MONITOR"

\* The call of detect_disengagement_behaviors that has returned, alone or as
\* the first step of the pipeline.
Detected == pure.name \in {"detect_disengagement_behaviors", "detect_then_score"}

DetectedBehaviors ==
    IF pure.name = "detect_then_score" THEN pure.behaviors ELSE pure.value

\* The records of one kind among the detected behaviours.
RecordsOf(type) ==
    {i \in 1..Len(DetectedBehaviors) : DetectedBehaviors[i].type = type}

\* The responses of the window with hints_used >= 3.
HintExhausted ==
    {i \in 1..Len(pure.recent_responses) :
        /\ "hints_used" \in DOMAIN pure.recent_responses[i]
        /\ pure.recent_responses[i].hints_used >= 3}

\* C24: detect_disengagement_behaviors emits a BOTTOM_OUT_HINT record iff at
\* least 2 responses of the window have hints_used >= 3, and the record has
\* severity AT_RISK and a count equal to the number of those responses.
C24_BottomOutHint ==
    Detected
        => /\ RecordsOf("bottom_out_hint") # {} <=> Cardinality(HintExhausted) >= 2
           /\ \A i \in RecordsOf("bottom_out_hint") :
                /\ DetectedBehaviors[i].severity = "AT_RISK"
                /\ DetectedBehaviors[i].count = Cardinality(HintExhausted)

\* C24 witness: the scenario's window, 4 responses of which two have
\* hints_used = 3, with its BOTTOM_OUT_HINT record of count 2.
C24_TwoOfFourWithThreeHints ==
    /\ pure.name = "detect_disengagement_behaviors"
    /\ pure.recent_responses = ExampleResponses
    /\ Cardinality(HintExhausted) = 2
    /\ \E i \in RecordsOf("bottom_out_hint") : DetectedBehaviors[i].count = 2

\* The number of correct responses among positions a..b of the window.
CorrectIn(a, b) ==
    Cardinality({i \in a..b : pure.recent_responses[i].is_correct})

\* Whether mean correctness of the first half (positions 1..mid, mid = n div 2)
\* minus that of the second half exceeds 0.20; a window of one response has no
\* first half.
DeclineOverFifth ==
    LET n == Len(pure.recent_responses)
        mid == n \div 2
    IN  /\ mid >= 1
        /\ 5 * (CorrectIn(1, mid) * (n - mid) - CorrectIn(mid + 1, n) * mid)
               > mid * (n - mid)

\* C25: for a non-empty window detect_disengagement_behaviors returns its
\* list, with a DECLINING_PERFORMANCE record, of severity AT_RISK, iff the
\* decline from the first half to the second exceeds 0.20; for a window of
\* one response it returns without that record.
C25_DecliningPerformance ==
    (Detected /\ pure.recent_responses # <<>>)
        => /\ RecordsOf("declining_performance") # {} <=> DeclineOverFifth
           /\ \A i \in RecordsOf("declining_performance") :
                DetectedBehaviors[i].severity = "AT_RISK"
           /\ Len(pure.recent_responses) = 1 => RecordsOf("declining_performance") = {}

\* The one-response case of C25: a window of one response, a wrong one, has
\* returned with the records of the other tests and no DECLINING_PERFORMANCE.
C25_OneResponseWindow ==
    /\ pure.name = "detect_disengagement_behaviors"
    /\ Len(pure.recent_responses) = 1
    /\ ~pure.recent_responses[1].is_correct
    /\ pure.value # <<>>
    /\ RecordsOf("declining_performance") = {}

\* The kinds of DisengagementBehavior.
BehaviorKinds ==
    {"quick_guess", "bottom_out_hint", "many_attempts", "low_login_frequency",
     "declining_performance", "long_inactivity"}

\* C28: detect_disengagement_behaviors emits at most one record per behaviour
\* kind, so at most 6 records, and none of severity CRITICAL; when its list is
\* passed to calculate_engagement_score the penalty is at most 50, and the
\* level CRITICAL is returned only for a final score under 30.
C28_OneRecordPerKindNoneCritical ==
    /\ Detected
        => /\ \A type \in BehaviorKinds : Cardinality(RecordsOf(type)) <= 1
           /\ \A i \in 1..Len(DetectedBehaviors) :
                /\ DetectedBehaviors[i].type \in BehaviorKinds
                /\ DetectedBehaviors[i].severity \in {"MONITOR", "AT_RISK"}
           /\ Len(DetectedBehaviors) <= 6
    /\ pure.name = "detect_then_score"
        => /\ pure.value.penalty_applied <= 50 * Unit
           /\ pure.value.behaviors_detected = Len(pure.behaviors)
           /\ pure.value.engagement_level = "CRITICAL"
                => pure.final_score < 30 * Unit

\* C28 witness: all six kinds detected at once, the penalty at its maximum of
\* 50, the level CRITICAL by the score.
C28_SixRecordsPenaltyFifty ==
    /\ pure.name = "detect_then_score"
    /\ Len(pure.behaviors) = 6
    /\ pure.value.penalty_applied = 50 * Unit
    /\ pure.value.engagement_level = "CRITICAL"

\* C26: for a list of N >= 0 student results, analyze_class_engagement
\* returns a distribution with a count for each of the five levels, the
\* counts summing to N, an alert_count equal to #AT_RISK + #CRITICAL, and a
\* students_needing_attention list of that size holding exactly the AT_RISK
\* and CRITICAL students.
C26_ClassDistribution ==
    pure.name = "analyze_class_engagement"
        => LET result == pure.value
               students == pure.student_engagements
               at_risk == {i \in 1..Len(students) :
                              students[i].engagement_level \in {"AT_RISK", "CRITICAL"}}
           IN  /\ DOMAIN result.distribution = Levels
               /\ \A level \in Levels :
                    result.distribution[level] = CountLevel(students, level)
               /\ result.alert_count = Cardinality(at_risk)
               /\ "students_needing_attention" \in DOMAIN result
               /\ Len(result.students_needing_attention) = result.alert_count
               /\ \A i \in 1..Len(students) :
                    i \in at_risk
                        <=> \E n \in 1..Len(result.students_needing_attention) :
                                result.students_needing_attention[n] = students[i]

\* The case of C26 that holds: for a class of N >= 1 students the five
\* counts, the alert count and the attention list are as claimed.
C26_NonEmptyClassDistribution ==
    (pure.name = "analyze_class_engagement" /\ pure.student_engagements # <<>>)
        => C26_ClassDistribution

\* C27: generate_practice_session never reports the load status OVERWHELMING:
\* the load of its summary is that of the items the packer accepted under the
\* <= 0.85 check, so the status is TOO_EASY (load < 0.4, the empty session
\* included) or OPTIMAL, and zpd_alignment is 'Optimal' iff the status is
\* OPTIMAL.
C27_NeverOverwhelming ==
    sel_pc = "done"
        => LET session == practice_session(selected_items, student_mastery)
           IN  /\ session.load_status # "OVERWHELMING"
               /\ session.cognitive_load <= max_load
               /\ session.load_status = "TOO_EASY" <=> session.cognitive_load < min_load
               /\ session.total_items = 0 => session.load_status = "TOO_EASY"
               /\ session.zpd_alignment = "Optimal" <=> session.load_status = "OPTIMAL"

\* C27 witness: a session reported OPTIMAL from which the packer kept out a
\* ranked item that would have taken the load above 0.85.
C27_OptimalAfterLoadRejection ==
    /\ sel_pc = "done"
    /\ practice_session(selected_items, student_mastery).load_status = "OPTIMAL"
    /\ \E j \in 1..Len(prioritized) :
            /\ j < next_item
            /\ ~ItemFits(selected_items, prioritized[j], student_mastery)
            /\ \A i \in 1..Len(selected_items) :
                    ~DrawnFromItem(selected_items[i], prioritized[j])

\* C29: the fields of a calculate_mastery result agree after rounding: a
\* returned mastery_score (rounded to 2 decimals) of 85.0 or more comes with
\* needs_practice false and the recommendation SKIP, and one of 60.0 or more
\* with a recommendation other than FOCUSED_PRACTICE.
C29_FieldsConsistentAfterRounding ==
    pure.name = "mastery_result"
        => /\ pure.value.mastery_score >= 85 * Unit
                => (~pure.value.needs_practice /\ pure.value.recommendation = "SKIP")
           /\ pure.value.mastery_score >= 60 * Unit
                => pure.value.recommendation # "FOCUSED_PRACTICE"

\* The case of C29 that holds: away from the half hundredth under a
\* threshold, where the fused mastery is itself at or over the threshold its
\* rounded score shows, the fields agree.
C29_ConsistentWhenRoundingKeepsSide ==
    (/\ pure.name = "mastery_result"
     /\ pure.value.mastery_score >= 85 * Unit => pure.final_mastery >= 85 * Unit
     /\ pure.value.mastery_score >= 60 * Unit => pure.final_mastery >= 60 * Unit)
        => C29_FieldsConsistentAfterRounding

\* C30: correlation entries are keyed by the ordered pair of concepts: a pair
\* (c,d) that no write has observed has the weight 0.3 in _calculate_correlation,
\* whatever other pairs (a,b) # (c,d) have been written.
C30_CorrelationKeysDoNotAlias ==
    \A c \in Concepts, d \in Concepts :
        <<c, d>> \notin observed
            => calculate_correlation(key_memory, c, d) = unobserved_correlation

====
